---- MODULE Spec2Model ----
(***************************************************************************)
(* A model of ADBSync (src/src/ADBSync): the snapshot of two file trees,   *)
(* FileSyncer.diffTrees, pruneTree, removeExludedFoldersFromUnaccountedTree *)
(* and the delete and copy phases of main().                               *)
(*                                                                         *)
(* Python values are records: None is [k |-> "N"], a (atime, mtime) tuple  *)
(* is [k |-> "T", a, m], a dict is [k |-> "D", d |-> function over its     *)
(* keys].  Paths and patterns are sequences of one-character strings.      *)
(* A dict's iteration order among siblings (the order of os.listdir or of  *)
(* the ls output) is fixed to KeyOrder.                                    *)
(***************************************************************************)
EXTENDS Integers, Sequences, FiniteSets, TLC

\* ------------------------------------------------------------- bounds
\* Entries below the two roots, source and destination together.
MaxNodes == 2
\* File stat variants are StatTable(0 .. MaxStat).
MaxStat == 1
\* The --exclude patterns are PatternTable(0 .. MaxPattern).
MaxPattern == 0
\* The same three for the states that start at diffTrees.
DiffMaxNodes == 3
DiffMaxStat == 2
DiffMaxPattern == 2
\* Minutes before and after the epoch that raw file times are drawn from.
QuantSpan == 2
\* Raw timestamps count ticks; a second has this many (Python floats).
TicksPerSecond == 2
\* Entries below the two roots for the states that end in pushTreeHere.
CopyMaxNodes == 3
\* Depth of the trees pruneTree is applied to on its own.
MaxPruneDepth == 2
\* Lines in the output of the probe, adb shell :
MaxProbeLines == 2
\* Calls of _getFilesTree one inside the other before the interpreter raises
\* RecursionError (sys.getrecursionlimit() is 1000 frames).
RecursionLimit == 5

\* ------------------------------------------------------- program constants
\* 60 * (int(t) // 60)
BucketSeconds == 60

Names == {"a", "b"}
KeyOrder == <<".", "a", "b", "a.txt", "sub", "b.txt", "old.txt">>

\* ------------------------------------------------------------ Python values
None == [k |-> "N"]
Tuple(a, m) == [k |-> "T", a |-> a, m |-> m]
Dict(d) == [k |-> "D", d |-> d]
IsNone(x) == x.k = "N"
IsTuple(x) == x.k = "T"
IsDict(x) == x.k = "D"
EmptyDict == [x \in {} |-> None]

\* dict.get(key, None) / dict.pop(key, None) value
Get(x, key) == IF key \in DOMAIN x.d THEN x.d[key] ELSE None
\* the keys of a dict other than "."
ChildKeys(x) == DOMAIN x.d \ {"."}
\* {".": dot} plus the entries of vals
MkDict(dot, vals) ==
  Dict([key \in DOMAIN vals \cup {"."} |-> IF key = "." THEN dot ELSE vals[key]])
\* the keys of a dict in iteration order
RECURSIVE KeysFrom(_, _)
KeysFrom(dom, i) ==
  IF i > Len(KeyOrder) THEN <<>>
  ELSE (IF KeyOrder[i] \in dom THEN <<KeyOrder[i]>> ELSE <<>>) \o KeysFrom(dom, i + 1)
Keys(x) == KeysFrom(DOMAIN x.d, 1)

\* ------------------------------------------------------------------ paths
Last(s) == s[Len(s)]
\* os.path.join(base, leaf) on a POSIX host; Android.joinPaths then replaces
\* backslashes, of which these paths have none
joinPaths(base, leaf) ==
  IF leaf # <<>> /\ Head(leaf) = "/" THEN leaf
  ELSE IF base = <<>> \/ Last(base) = "/" THEN base \o leaf
  ELSE base \o <<"/">> \o leaf

\* the components of a path between slashes, empty ones included
RECURSIVE Split(_, _)
Split(p, cur) ==
  IF p = <<>> THEN <<cur>>
  ELSE IF Head(p) = "/" THEN <<cur>> \o Split(Tail(p), <<>>)
  ELSE Split(Tail(p), Append(cur, Head(p)))
RECURSIVE JoinComps(_)
JoinComps(cs) ==
  IF cs = <<>> THEN <<>>
  ELSE IF Len(cs) = 1 THEN cs[1]
  ELSE cs[1] \o <<"/">> \o JoinComps(Tail(cs))
RECURSIVE DropEmpty(_)
DropEmpty(cs) ==
  IF cs = <<>> THEN <<>>
  ELSE (IF Head(cs) = <<>> THEN <<>> ELSE <<Head(cs)>>) \o DropEmpty(Tail(cs))
\* os.path.normpath for paths without "." and ".." components: empty
\* components (doubled and trailing slashes) are dropped, "" becomes "."
normPath(p) ==
  LET body == JoinComps(DropEmpty(Split(p, <<>>)))
      abs == p # <<>> /\ Head(p) = "/"
  IN IF abs THEN <<"/">> \o body
     ELSE IF body = <<>> THEN <<".">> ELSE body

\* fnmatch.fnmatch(name, pat) for patterns of literals, "*" and "?"
RECURSIVE fnmatch(_, _)
fnmatch(name, pat) ==
  IF pat = <<>> THEN name = <<>>
  ELSE IF Head(pat) = "*"
    THEN fnmatch(name, Tail(pat)) \/ (name # <<>> /\ fnmatch(Tail(name), pat))
  ELSE IF name = <<>> THEN FALSE
  ELSE (Head(pat) = "?" \/ Head(pat) = Head(name)) /\ fnmatch(Tail(name), Tail(pat))

\* ------------------------------------------------------ FileSyncer.diffTrees
\* the for loop over destinationExcludePatterns
ExcludedPath(path_destination, patterns) ==
  \E i \in 1 .. Len(patterns) : fnmatch(path_destination, patterns[i])

\* a comparison of the first tuple entries, the atimes, in its place
SourceIsNewerByAtime(source, destination) == source.a > destination.a
\* source[1] > destination[1]
SourceIsNewer(source, destination) == source.m > destination.m

\* What one call returns and leaves behind: the five trees, whether
\* criticalLogExit ended the process, the destination paths warned about,
\* and the two argument dicts as the call's pops leave them.
Result(delete, copy, xs, ud, xd, exit, warned, src, dst) ==
  [delete |-> delete, copy |-> copy, excluded_source |-> xs,
   unaccounted_destination |-> ud, excluded_destination |-> xd,
   exit |-> exit, warned |-> warned, source |-> src, destination |-> dst]

\* a dict without its "." key and with its children as the recursion left them
Popped(vals) == Dict(vals)

\* a classification that takes no notice of the exclusion test
DestinationOnlyFileUnaccounted(source, destination, exclude) ==
  Result(None, None, None, destination, None, FALSE, {}, source, destination)
\* a classification that plans the removal of what only the destination has
DestinationOnlyFileDeleted(source, destination, exclude) ==
  IF exclude
  THEN Result(None, None, None, None, destination, FALSE, {}, source, destination)
  ELSE Result(destination, None, None, None, None, FALSE, {}, source, destination)
\* lines 51-63: nothing at the source, a file at the destination
DestinationOnlyFile(source, destination, exclude) ==
  IF exclude
  THEN Result(None, None, None, None, destination, FALSE, {}, source, destination)
  ELSE Result(None, None, None, destination, None, FALSE, {}, source, destination)

\* lines 93-105: a file at the source, nothing at the destination
SourceOnlyFile(source, destination, exclude) ==
  IF exclude
  THEN Result(None, None, source, None, None, FALSE, {}, source, destination)
  ELSE Result(None, source, None, None, None, FALSE, {}, source, destination)

\* a replacement that copies the newer file and plans no removal
FileOverFileNoDelete(source, destination, exclude) ==
  IF exclude
  THEN Result(None, None, source, None, destination, FALSE, {}, source, destination)
  ELSE IF SourceIsNewer(source, destination)
  THEN Result(None, source, None, None, None, FALSE, {}, source, destination)
  ELSE Result(None, None, None, None, None, FALSE, {}, source, destination)
\* lines 106-125: a file on both sides
FileOverFile(source, destination, exclude) ==
  IF exclude
  THEN Result(None, None, source, None, destination, FALSE, {}, source, destination)
  ELSE IF SourceIsNewer(source, destination)
  THEN Result(destination, source, None, None, None, FALSE, {}, source, destination)
  ELSE Result(None, None, None, None, None, FALSE, {}, source, destination)

\* a replacement that deletes the directory's self-entry and leaves what is
\* in the directory out of the delete tree
FileOverDirectorySelfOnly(source, destination, path_destination, exclude, folderFileOverwriteError) ==
  IF exclude
  THEN Result(Dict("." :> None), None, source, Dict("." :> None), destination,
              FALSE, {}, source, destination)
  ELSE Result(Dict("." :> destination.d["."]), source, None, Dict("." :> None),
              Dict("." :> None), folderFileOverwriteError,
              IF folderFileOverwriteError THEN {} ELSE {path_destination},
              source, destination)
\* a comparison of the kinds that comes before the exclusion test
FileOverDirectoryConflictFirst(source, destination, path_destination, exclude, folderFileOverwriteError) ==
  Result(IF exclude THEN Dict("." :> None) ELSE destination,
         IF exclude THEN None ELSE source,
         IF exclude THEN source ELSE None,
         Dict("." :> None),
         IF exclude THEN destination ELSE Dict("." :> None),
         folderFileOverwriteError,
         IF folderFileOverwriteError THEN {} ELSE {path_destination},
         source, destination)
\* lines 126-143: a file at the source, a directory at the destination
FileOverDirectory(source, destination, path_destination, exclude, folderFileOverwriteError) ==
  IF exclude
  THEN Result(Dict("." :> None), None, source, Dict("." :> None), destination,
              FALSE, {}, source, destination)
  ELSE Result(destination, source, None, Dict("." :> None), Dict("." :> None),
              folderFileOverwriteError,
              IF folderFileOverwriteError THEN {} ELSE {path_destination},
              source, destination)

RECURSIVE diffTrees(_, _, _, _, _)
diffTrees(source, destination, path_destination, patterns, folderFileOverwriteError) ==
  LET exclude == ExcludedPath(path_destination, patterns)
      sub(s, d, key) ==
        diffTrees(s, d, joinPaths(path_destination, <<key>>), patterns,
                  folderFileOverwriteError)
      warnedOf(rs, keys) == UNION {rs[key].warned : key \in keys}
      exitOf(rs, keys) == \E key \in keys : rs[key].exit
  IN
  IF IsNone(source) THEN
    IF IsNone(destination) THEN
      Result(None, None, None, None, None, FALSE, {}, source, destination)
    ELSE IF IsTuple(destination) THEN
      DestinationOnlyFile(source, destination, exclude)
    ELSE
      IF exclude
      THEN Result(Dict("." :> None), None, None, Dict("." :> None), destination,
                  FALSE, {}, source, destination)
      ELSE
        LET keys == ChildKeys(destination)
            rs == [key \in keys |-> sub(None, destination.d[key], key)]
        IN Result(MkDict(None, [key \in keys |-> rs[key].delete]),
                  None, None,
                  MkDict(destination.d["."],
                         [key \in keys |-> rs[key].unaccounted_destination]),
                  MkDict(None, [key \in keys |-> rs[key].excluded_destination]),
                  exitOf(rs, keys), warnedOf(rs, keys), source,
                  Popped([key \in keys |-> rs[key].destination]))
  ELSE IF IsTuple(source) THEN
    IF IsNone(destination) THEN
      SourceOnlyFile(source, destination, exclude)
    ELSE IF IsTuple(destination) THEN
      FileOverFile(source, destination, exclude)
    ELSE
      FileOverDirectory(source, destination, path_destination, exclude,
                        folderFileOverwriteError)
  ELSE
    IF IsNone(destination) THEN
      IF exclude
      THEN Result(None, Dict("." :> None), source, None, None, FALSE, {},
                  source, destination)
      ELSE
        LET keys == ChildKeys(source)
            rs == [key \in keys |-> sub(source.d[key], None, key)]
        IN Result(None,
                  MkDict(source.d["."], [key \in keys |-> rs[key].copy]),
                  MkDict(None, [key \in keys |-> rs[key].excluded_source]),
                  None, None,
                  exitOf(rs, keys), warnedOf(rs, keys),
                  Popped([key \in keys |-> rs[key].source]), destination)
    ELSE IF IsTuple(destination) THEN
      IF exclude
      \* line 179 sets excluded_destination = destination, line 203 resets it
      THEN Result(None, Dict("." :> None), source, None, None, FALSE, {},
                  source, destination)
      ELSE
        LET keys == ChildKeys(source)
            rs == [key \in keys |-> sub(source.d[key], None, key)]
        IN Result(destination,
                  MkDict(source.d["."], [key \in keys |-> rs[key].copy]),
                  MkDict(None, [key \in keys |-> rs[key].excluded_source]),
                  None, None,
                  folderFileOverwriteError \/ exitOf(rs, keys),
                  warnedOf(rs, keys) \cup
                    (IF folderFileOverwriteError THEN {} ELSE {path_destination}),
                  Popped([key \in keys |-> rs[key].source]), destination)
    ELSE
      IF exclude
      THEN Result(Dict("." :> None), Dict("." :> None), source, Dict("." :> None),
                  destination, FALSE, {}, source, destination)
      ELSE
        LET skeys == ChildKeys(source)
            dkeys == ChildKeys(destination) \ skeys
            keys == skeys \cup dkeys
            rs == [key \in keys |->
                     IF key \in skeys
                     THEN sub(source.d[key], Get(destination, key), key)
                     ELSE sub(None, destination.d[key], key)]
        IN Result(MkDict(None, [key \in keys |-> rs[key].delete]),
                  MkDict(None, [key \in skeys |-> rs[key].copy]),
                  MkDict(None, [key \in skeys |-> rs[key].excluded_source]),
                  MkDict(None, [key \in keys |-> rs[key].unaccounted_destination]),
                  MkDict(None, [key \in keys |-> rs[key].excluded_destination]),
                  exitOf(rs, keys), warnedOf(rs, keys),
                  Popped([key \in skeys |-> rs[key].source]),
                  Popped([key \in dkeys |-> rs[key].destination]))

\* ------------------------------------------------------ FileSyncer.pruneTree
\* a dict handed back even when it is empty
orItself(returnDict) == returnDict
\* line 280: returnDict or None
orNone(returnDict) == IF DOMAIN returnDict.d = {} THEN None ELSE returnDict
RECURSIVE pruneTree(_)
pruneTree(tree) ==
  IF ~IsDict(tree) THEN tree
  ELSE
    LET pruned == [key \in DOMAIN tree.d |-> pruneTree(tree.d[key])]
        kept == {key \in DOMAIN tree.d : ~IsNone(pruned[key])}
    IN orNone(Dict([key \in kept |-> pruned[key]]))

\* --------------------- FileSyncer.removeExludedFoldersFromUnaccountedTree
\* a function that hands the unaccounted tree back as it is
removeNothingFromUnaccountedTree(unaccounted, excluded) == unaccounted
\* .items() of a tuple and .get() of a tuple raise AttributeError
AttributeError == [k |-> "AttributeError"]
RECURSIVE removeExludedFoldersFromUnaccountedTree(_, _)
removeExludedFoldersFromUnaccountedTree(unaccounted, excluded) ==
  IF IsNone(excluded) THEN unaccounted
  ELSE IF ~IsDict(unaccounted) THEN AttributeError
  ELSE IF ~IsDict(excluded) /\ ChildKeys(unaccounted) # {} THEN AttributeError
  ELSE
    LET keys == ChildKeys(unaccounted)
        rs == [key \in keys |->
                 removeExludedFoldersFromUnaccountedTree(unaccounted.d[key],
                   IF IsDict(excluded) THEN Get(excluded, key) ELSE None)]
    IN IF \E key \in keys : rs[key] = AttributeError THEN AttributeError
       ELSE Dict(rs)

\* ------------------------------------------------------------ file systems
\* A file tree as it is on a backend: a regular file or a directory with
\* raw atime and mtime in ticks, or nothing at the path.
Absent == [k |-> "A"]
File(a, m) == [k |-> "F", a |-> a, m |-> m]
Directory(a, m, c) == [k |-> "D", a |-> a, m |-> m, c |-> c]
\* a symbolic link and the node at its real path (Absent: the link dangles)
Symlink(a, m, to) == [k |-> "L", a |-> a, m |-> m, to |-> to]
\* an entry whose lstat fails: listed, then gone (FileNotFoundError), below
\* something that is no directory (NotADirectoryError), or not permitted
\* (PermissionError)
Raises(e) == [k |-> "X", e |-> e]

\* a whole second in ticks
Sec(s) == s * TicksPerSecond
\* int(x) of a float: truncation towards zero
PyInt(t) == IF t >= 0 THEN t \div TicksPerSecond ELSE -((-t) \div TicksPerSecond)
\* 60 * (int(st_time) // 60)
Bucket(t) == BucketSeconds * (PyInt(t) \div BucketSeconds)

\* ls -l prints an mtime to the minute
LsMinuteSeconds == 60
\* os.stat_result of lstat: Local reads both times as they are; Android
\* parses the minute ls printed (host and device in one time zone) and
\* fills st_atime with st_mtime
lstat(backend, node) ==
  IF backend = "local"
  THEN [mode |-> node.k, st_atime |-> node.a, st_mtime |-> node.m]
  ELSE LET ticks == LsMinuteSeconds * TicksPerSecond
           mtime == ticks * (node.m \div ticks)
       IN [mode |-> node.k, st_atime |-> mtime, st_mtime |-> mtime]

\* an exception on its way up
Raised(e) == [k |-> "E", e |-> e]
IsRaised(x) == x.k = "E"
\* what lstat, or lsToStat for the entry's line, raises: os.lstat raises the
\* three errors; ls prints "No such file or directory" and "Not a
\* directory", which lsToStat raises, and "Permission denied", which is a
\* line not captured (criticalLogExit); "" when there is a stat
lstatRaises(backend, node) ==
  IF node.k = "A" THEN "FileNotFoundError"
  ELSE IF node.k # "X" THEN ""
  ELSE IF backend = "android" /\ node.e = "PermissionError" THEN "SystemExit"
  ELSE node.e

\* the filename lsToStat returns for a line of ls -la is None for a symbolic
\* link, and joinPaths(tree_root, None) raises TypeError (Base.py line 45);
\* os.listdir gives every name
joinPathsRaises(backend, child) ==
  IF backend = "android" /\ child.k = "L" THEN "TypeError" ELSE ""

\* the dict of a directory whose entries were walked in the order of the
\* listing: the first exception ends the walk and is what comes up
ListedTree(times, entries, listing) ==
  IF \A filename \in DOMAIN entries : ~IsRaised(entries[filename])
  THEN MkDict(times, entries)
  ELSE entries[Head(SelectSeq(listing, LAMBDA filename : IsRaised(entries[filename])))]

\* FileSystem._getFilesTree, the stat of its argument included
RECURSIVE getFilesTreeRec(_, _, _)
getFilesTreeRec(backend, node, followLinks) ==
  IF lstatRaises(backend, node) # "" THEN Raised(lstatRaises(backend, node))
  ELSE
  LET st == lstat(backend, node)
      times == Tuple(Bucket(st.st_atime), Bucket(st.st_mtime))
  IN IF st.mode = "L"
     THEN IF ~followLinks THEN None
          ELSE IF lstatRaises(backend, node.to) \in {"FileNotFoundError", "NotADirectoryError"}
          THEN None
          ELSE getFilesTreeRec(backend, node.to, followLinks)
     ELSE IF st.mode = "D"
     THEN ListedTree(times,
                     [filename \in DOMAIN node.c |->
                        IF joinPathsRaises(backend, node.c[filename]) # ""
                        THEN Raised(joinPathsRaises(backend, node.c[filename]))
                        ELSE getFilesTreeRec(backend, node.c[filename], followLinks)],
                     KeysFrom(DOMAIN node.c, 1))
     ELSE times

\* FileSystem.getFilesTree: the tree, or the exception that left it
getFilesTree(backend, root, followLinks) ==
  LET tree == getFilesTreeRec(backend, root, followLinks)
  IN IF IsRaised(tree) THEN [error |-> tree.e, tree |-> None]
     ELSE [error |-> "", tree |-> tree]

\* a path below a root as the names on the way
NamesOf(path) == [i \in 1 .. Len(DropEmpty(Split(path, <<>>))) - 1 |->
                    DropEmpty(Split(path, <<>>))[i + 1][1]]

RECURSIVE FsAt(_, _)
FsAt(fs, names) ==
  IF names = <<>> THEN fs
  ELSE IF fs.k # "D" \/ Head(names) \notin DOMAIN fs.c THEN Absent
  ELSE FsAt(fs.c[Head(names)], Tail(names))

RECURSIVE FsRemove(_, _)
FsRemove(fs, names) ==
  IF names = <<>> THEN Absent
  ELSE IF fs.k # "D" \/ Head(names) \notin DOMAIN fs.c THEN fs
  ELSE LET child == FsRemove(fs.c[Head(names)], Tail(names))
           rest == DOMAIN fs.c \ {Head(names)}
       IN IF child = Absent
          THEN [fs EXCEPT !.c = [n \in rest |-> fs.c[n]]]
          ELSE [fs EXCEPT !.c = [n \in DOMAIN fs.c |->
                                   IF n = Head(names) THEN child ELSE fs.c[n]]]

\* unlink and rmdir of the two backends: os.unlink and os.rmdir raise on a
\* missing path, on a directory and on a directory that is not empty;
\* Android runs rm and rm -r, and any line rm prints is a criticalLogExit
BackendRemove(backend, fs, op, path) ==
  LET names == NamesOf(path)
      node == FsAt(fs, names)
      fails ==
        IF op = "unlink" THEN node.k # "F"
        ELSE IF backend = "local" THEN node.k # "D" \/ DOMAIN node.c # {}
        ELSE node.k = "A"
  IN IF fails
     THEN [fs |-> fs, status |-> IF backend = "local" THEN "crashed" ELSE "fatal"]
     ELSE [fs |-> FsRemove(fs, names), status |-> ""]

\* ---------------------------------------------------- FileSystem.removeTree
\* The calls removeTree logs, in order; each is issued unless dryRun.
\* a removal that goes to the backend in a dry run as well
RemovalAlways(op, path, dryRun) == [op |-> op, path |-> path, issued |-> TRUE]
\* logging.info("Removing ..."), then unlink or rmdir if not dryRun
Removal(op, path, dryRun) == [op |-> op, path |-> path, issued |-> ~dryRun]
\* a directory removed before what is in it
FolderBeforeItems(items, folder) == folder \o items
\* lines 64-71: the loop over tree.items(), then rmdir if the dict had a
\* self-entry
ItemsThenFolder(items, folder) == items \o folder
RECURSIVE removeTree(_, _, _)
RECURSIVE removeTreeItems(_, _, _, _)
removeTreeItems(tree_root, tree, keys, dryRun) ==
  IF keys = <<>> THEN <<>>
  ELSE IF Head(keys) = "." THEN removeTreeItems(tree_root, tree, Tail(keys), dryRun)
  ELSE removeTree(normPath(joinPaths(tree_root, <<Head(keys)>>)),
                  tree.d[Head(keys)], dryRun)
       \o removeTreeItems(tree_root, tree, Tail(keys), dryRun)
removeTree(tree_root, tree, dryRun) ==
  IF IsTuple(tree)
  THEN <<Removal("unlink", tree_root, dryRun)>>
  ELSE ItemsThenFolder(removeTreeItems(tree_root, tree, Keys(tree), dryRun),
                       IF "." \in DOMAIN tree.d /\ ~IsNone(tree.d["."])
                       THEN <<Removal("rmdir", tree_root, dryRun)>>
                       ELSE <<>>)

\* the backend after the issued calls of a sequence, up to the first failure
RECURSIVE Issue(_, _, _)
Issue(backend, fs, calls) ==
  IF calls = <<>> THEN [fs |-> fs, status |-> "", done |-> <<>>]
  ELSE IF ~Head(calls).issued THEN Issue(backend, fs, Tail(calls))
  ELSE LET r == BackendRemove(backend, fs, Head(calls).op, Head(calls).path)
           rest == Issue(backend, r.fs, Tail(calls))
           this == [op |-> Head(calls).op, path |-> Head(calls).path]
       IN IF r.status # "" THEN [fs |-> fs, status |-> r.status, done |-> <<this>>]
          ELSE [rest EXCEPT !.done = <<this>> \o rest.done]

\* -------------------------------------------------- FileSystem.pushTreeHere
\* The calls pushTreeHere logs, in order; each is issued unless dryRun.
CopyCall(op, source, path, times, dryRun) ==
  [op |-> op, source |-> source, path |-> path, times |-> times, issued |-> ~dryRun]
\* a directory made after what goes into it
ItemsBeforeFolder(folder, items) == items \o folder
\* lines 90-104: makedirs if the dict has a self-entry, then the loop
FolderThenItems(folder, items) == folder \o items
RECURSIVE pushTreeHere(_, _, _, _)
RECURSIVE pushTreeHereItems(_, _, _, _, _)
pushTreeHereItems(tree_root, tree, keys, destination_root, dryRun) ==
  IF keys = <<>> THEN <<>>
  ELSE IF Head(keys) = "."
  THEN pushTreeHereItems(tree_root, tree, Tail(keys), destination_root, dryRun)
  ELSE pushTreeHere(normPath(joinPaths(tree_root, <<Head(keys)>>)), tree.d[Head(keys)],
                    normPath(joinPaths(destination_root, <<Head(keys)>>)), dryRun)
       \o pushTreeHereItems(tree_root, tree, Tail(keys), destination_root, dryRun)
pushTreeHere(tree_root, tree, destination_root, dryRun) ==
  IF IsTuple(tree)
  THEN <<CopyCall("pushFileHere", tree_root, destination_root, tree, dryRun),
         CopyCall("utime", tree_root, destination_root, tree, dryRun)>>
  ELSE IF IsDict(tree)
  THEN FolderThenItems(
         IF "." \in DOMAIN tree.d /\ ~IsNone(tree.d["."])
         THEN <<CopyCall("makedirs", tree_root, destination_root, tree.d["."], dryRun)>>
         ELSE <<>>,
         pushTreeHereItems(tree_root, tree, Keys(tree), destination_root, dryRun))
  ELSE <<[op |-> "NotImplementedError", source |-> tree_root, path |-> destination_root,
          times |-> tree, issued |-> TRUE]>>

\* How a transfer command ends: its exit code, and whether every line it
\* printed is a "1 file pushed, 0 skipped" line.
TransferOutcomes == [exit : {0, 1}, captured : BOOLEAN]
TransferOk == [exit |-> 0, captured |-> TRUE]
\* Android.pushFileHere reads the lines adb push prints and never the exit
\* code; Local.pushFileHere takes the exit code of adb pull
TransferIsFatal(backend, outcome) ==
  IF backend = "local" THEN outcome.exit # 0 ELSE ~outcome.captured

\* the transfers among the calls
Transfers(calls) == Len(SelectSeq(calls, LAMBDA call : call.op = "pushFileHere"))

\* the raw time of what a copy pass creates
CopyTime == Sec(240)
\* the tree with a node put at a path, directories on the way made
RECURSIVE FsPut(_, _, _)
FsPut(fs, names, node) ==
  IF names = <<>> THEN node
  ELSE LET base == IF fs.k = "D" THEN fs ELSE Directory(CopyTime, CopyTime, EmptyDict)
           below == IF Head(names) \in DOMAIN base.c THEN base.c[Head(names)] ELSE Absent
       IN [base EXCEPT !.c = (Head(names) :> FsPut(below, Tail(names), node)) @@ base.c]

\* makedirs, pushFileHere and utime of the two backends. os.makedirs with
\* exist_ok and mkdir -p take an existing directory; a transfer that exits
\* with 0 leaves the file; os.utime raises on a missing path, touch makes it
\* (host and device in UTC)
BackendCopy(backend, fs, call, outcome) ==
  LET names == NamesOf(call.path)
      node == FsAt(fs, names)
      failed == [fs |-> fs, status |-> IF backend = "local" THEN "crashed" ELSE "fatal"]
      stamped == File(Sec(call.times.a), Sec(call.times.m))
  IN IF call.op = "makedirs"
     THEN IF node.k = "D" THEN [fs |-> fs, status |-> ""]
          ELSE IF node.k = "A"
          THEN [fs |-> FsPut(fs, names, Directory(CopyTime, CopyTime, EmptyDict)),
                status |-> ""]
          ELSE failed
     ELSE IF call.op = "pushFileHere"
     THEN [fs |-> IF outcome.exit = 0 THEN FsPut(fs, names, File(CopyTime, CopyTime)) ELSE fs,
           status |-> IF TransferIsFatal(backend, outcome) THEN "fatal" ELSE ""]
     ELSE IF call.op = "utime"
     THEN IF node.k = "F" THEN [fs |-> FsPut(fs, names, stamped), status |-> ""]
          ELSE IF node.k = "A" /\ backend = "android"
          THEN [fs |-> FsPut(fs, names, stamped), status |-> ""]
          ELSE failed
     ELSE [fs |-> fs, status |-> "crashed"]

\* the backend after the issued calls of a sequence, up to the first that
\* ends the run; the transfer numbered bad.at ends as bad.outcome, every
\* other one as TransferOk
RECURSIVE IssueCopy(_, _, _, _, _)
IssueCopy(backend, fs, calls, n, bad) ==
  IF calls = <<>> THEN [fs |-> fs, status |-> "", done |-> <<>>]
  ELSE IF ~Head(calls).issued THEN IssueCopy(backend, fs, Tail(calls), n, bad)
  ELSE LET call == Head(calls)
           isPush == call.op = "pushFileHere"
           outcome == IF isPush /\ n + 1 = bad.at THEN bad.outcome ELSE TransferOk
           r == BackendCopy(backend, fs, call, outcome)
           names == NamesOf(call.path)
           this == [op |-> call.op, path |-> call.path, times |-> call.times,
                    exit |-> outcome.exit,
                    parentThere |-> names = <<>> \/
                                    FsAt(fs, SubSeq(names, 1, Len(names) - 1)).k = "D"]
           rest == IssueCopy(backend, r.fs, Tail(calls), IF isPush THEN n + 1 ELSE n, bad)
       IN IF r.status # "" THEN [fs |-> r.fs, status |-> r.status, done |-> <<this>>]
          ELSE [rest EXCEPT !.done = <<this>> \o rest.done]

\* --------------------------------------------- AndroidFileSystem.testConnection
\* A line of the probe's output, by the expression it matches.
\* "" is an empty line.
ProbeLines == {"daemon_not_running", "daemon_started", "no_devices", "other", ""}
ProbeOutputs == UNION {[1 .. n -> ProbeLines] : n \in 0 .. MaxProbeLines}
\* an output that passes and one that does not
ProbeSamples == {<<>>, <<"no_devices">>}
\* FileSystem.adbShell: readline() until it returns "" once stripped of its
\* line end, which it does at the end of the output and at an empty line
RECURSIVE adbShell(_)
adbShell(output) ==
  IF output = <<>> \/ Head(output) = "" THEN <<>>
  ELSE <<Head(output)>> \o adbShell(Tail(output))
testConnection(output) ==
  \A i \in 1 .. Len(adbShell(output)) : adbShell(output)[i] # "no_devices"

\* ------------------------------------------------------------------- main()
VARIABLES
  args,                   \* the parsed command line
  probe,                  \* what adb shell : prints for this command line
  srcFs, dstFs,           \* the trees at path_source and at path_destination
  pc,                     \* where main() is, or how it ended
  run,                    \* 1 for the first run, 2 for the run after it
  filesTree_source, filesTree_destination,
  tree_delete, tree_copy, tree_excluded_source,
  tree_unaccounted_destination, tree_excluded_destination,
  tree_unaccounted_destination_non_excluded,
  warned,                 \* destination paths of the "Overwriting ..." warnings
  log,                    \* the removals logged, in order
  ops,                    \* the removals issued on the destination backend
  issuedBefore,           \* the removals the run before this one issued
  copied,                 \* the copy calls issued on the destination backend
  walk,                   \* where getFilesTree is when it is followed call by call
  parse                   \* a line of ls output and what lsToStat makes of it

vars == <<args, probe, srcFs, dstFs, pc, run, filesTree_source, filesTree_destination,
          tree_delete, tree_copy, tree_excluded_source,
          tree_unaccounted_destination, tree_excluded_destination,
          tree_unaccounted_destination_non_excluded, warned, log, ops,
          issuedBefore, copied, walk, parse>>

trees == <<tree_delete, tree_copy, tree_excluded_source,
           tree_unaccounted_destination, tree_excluded_destination,
           tree_unaccounted_destination_non_excluded>>

path_source == normPath(<<"S">>)
path_destination == normPath(<<"D">>)
fs_source == IF args.pull THEN "android" ELSE "local"
fs_destination == IF args.pull THEN "local" ELSE "android"

\* lines 353-360
excludePatterns(source, exclude) ==
  [i \in 1 .. Len(exclude) |->
     IF IsDict(source)
     THEN normPath(joinPaths(path_destination, exclude[i]))
     ELSE normPath(path_destination \o exclude[i])]

\* an ending that takes only a missing root for fatal
EndingNotFoundOnly(error) ==
  IF error = "FileNotFoundError" THEN "fatal" ELSE "snapshotDestination"
\* how main() ends when an exception reaches it: criticalLogExit raises
\* SystemExit, the three errors of lines 327-332 and 336-341 are answered by
\* criticalLogExit, anything else is a traceback
Ending(error) ==
  IF error \in {"SystemExit", "FileNotFoundError", "NotADirectoryError", "PermissionError"}
  THEN "fatal" ELSE "crashed"

\* lines 322-323
TestConnection ==
  /\ pc = "testConnection"
  /\ pc' = IF testConnection(probe) THEN "snapshotSource" ELSE "fatal"
  /\ UNCHANGED <<args, probe, parse, copied, walk, issuedBefore, srcFs, dstFs, run, filesTree_source, filesTree_destination,
                 trees, warned, log, ops>>

\* a source snapshot of None taken for a source that is not there
SnapshotSourceNoneIsFatal ==
  /\ pc = "snapshotSource"
  /\ LET r == getFilesTree(fs_source, srcFs, args.copyLinks)
     IN IF r.error = "" /\ ~IsNone(r.tree)
        THEN pc' = "snapshotDestination" /\ filesTree_source' = r.tree
        ELSE pc' = "fatal" /\ UNCHANGED filesTree_source
  /\ UNCHANGED <<args, probe, parse, copied, walk, issuedBefore, srcFs, dstFs, run, filesTree_destination,
                 trees, warned, log, ops>>

\* lines 325-332
SnapshotSource ==
  /\ pc = "snapshotSource"
  /\ LET r == getFilesTree(fs_source, srcFs, args.copyLinks)
     IN IF r.error = ""
        THEN pc' = "snapshotDestination" /\ filesTree_source' = r.tree
        ELSE pc' = Ending(r.error) /\ UNCHANGED filesTree_source
  /\ UNCHANGED <<args, probe, parse, copied, walk, issuedBefore, srcFs, dstFs, run, filesTree_destination,
                 trees, warned, log, ops>>

\* a snapshot that makes the destination root where there is none
SnapshotDestinationMakingRoot ==
  /\ pc = "snapshotDestination"
  /\ LET r == getFilesTree(fs_destination, dstFs, args.copyLinks)
     IN IF r.error \in {"", "FileNotFoundError"}
        THEN pc' = "diff" /\ filesTree_destination' = r.tree
        ELSE pc' = Ending(r.error) /\ UNCHANGED filesTree_destination
  /\ dstFs' = IF dstFs = Absent THEN Directory(CopyTime, CopyTime, EmptyDict) ELSE dstFs
  /\ UNCHANGED <<args, probe, parse, copied, walk, issuedBefore, srcFs, run, filesTree_source,
                 trees, warned, log, ops>>

\* lines 334-341: the try block is around the whole walk, and a
\* FileNotFoundError from anywhere in it leaves filesTree_destination None
SnapshotDestination ==
  /\ pc = "snapshotDestination"
  /\ LET r == getFilesTree(fs_destination, dstFs, args.copyLinks)
     IN IF r.error \in {"", "FileNotFoundError"}
        THEN pc' = "diff" /\ filesTree_destination' = r.tree
        ELSE pc' = Ending(r.error) /\ UNCHANGED filesTree_destination
  /\ UNCHANGED <<args, probe, parse, copied, walk, issuedBefore, srcFs, dstFs, run, filesTree_source,
                 trees, warned, log, ops>>

\* a conflict that only --force overrides
overwriteIsErrorUnlessForce(a) == ~a.force
\* line 373: folderFileOverwriteError = not args.dryRun and not args.force
overwriteIsError(a) == ~a.dryRun /\ ~a.force

\* lines 353-374; diffTrees pops keys off the two snapshots
Diff ==
  /\ pc = "diff"
  /\ \E r \in {diffTrees(filesTree_source, filesTree_destination, path_destination,
                          excludePatterns(filesTree_source, args.exclude),
                          overwriteIsError(args))} :
        IF r.exit
        THEN /\ pc' = "fatal"
             /\ UNCHANGED <<filesTree_source, filesTree_destination, trees, warned>>
        ELSE /\ pc' = "prune"
             /\ filesTree_source' = r.source
             /\ filesTree_destination' = r.destination
             /\ tree_delete' = r.delete
             /\ tree_copy' = r.copy
             /\ tree_excluded_source' = r.excluded_source
             /\ tree_unaccounted_destination' = r.unaccounted_destination
             /\ tree_excluded_destination' = r.excluded_destination
             /\ warned' = r.warned
             /\ UNCHANGED tree_unaccounted_destination_non_excluded
  /\ UNCHANGED <<args, probe, parse, copied, walk, issuedBefore, srcFs, dstFs, run, log, ops>>

\* lines 376-415
Prune ==
  /\ pc = "prune"
  /\ tree_delete' = pruneTree(tree_delete)
  /\ tree_copy' = pruneTree(tree_copy)
  /\ tree_excluded_source' = pruneTree(tree_excluded_source)
  /\ tree_unaccounted_destination' = pruneTree(tree_unaccounted_destination)
  /\ tree_excluded_destination' = pruneTree(tree_excluded_destination)
  /\ LET kept == IF IsNone(tree_unaccounted_destination')
                 THEN None
                 ELSE removeExludedFoldersFromUnaccountedTree(
                        tree_unaccounted_destination', tree_excluded_destination')
     IN IF kept = AttributeError
        THEN pc' = "crashed" /\ tree_unaccounted_destination_non_excluded' = None
        ELSE pc' = "deleteTree"
             /\ tree_unaccounted_destination_non_excluded' = pruneTree(kept)
  /\ UNCHANGED <<args, probe, parse, copied, walk, issuedBefore, srcFs, dstFs, run, filesTree_source, filesTree_destination,
                 warned, log, ops>>

\* fs_destination.removeTree(path_destination, tree, dryRun = args.dryRun) for
\* each tree of a sequence, as far as the backend lets it go
RECURSIVE CallsOf(_)
CallsOf(ts) ==
  IF ts = <<>> THEN <<>>
  ELSE (IF IsNone(Head(ts)) THEN <<>>
        ELSE removeTree(path_destination, Head(ts), args.dryRun))
       \o CallsOf(Tail(ts))

RECURSIVE LoggedUpTo(_, _)
LoggedUpTo(calls, n) ==
  IF calls = <<>> THEN <<>>
  ELSE IF Head(calls).issued /\ n = 0 THEN <<>>
  ELSE <<[op |-> Head(calls).op, path |-> Head(calls).path]>>
       \o LoggedUpTo(Tail(calls), IF Head(calls).issued THEN n - 1 ELSE n)

Remove(ts, next) ==
  \E calls \in {CallsOf(ts)} :
    \E r \in {Issue(fs_destination, dstFs, calls)} :
      /\ dstFs' = r.fs
      /\ ops' = ops \o r.done
      /\ log' = log \o (IF r.status = "" THEN LoggedUpTo(calls, Len(calls) + 1)
                        ELSE LoggedUpTo(calls, Len(r.done)))
      /\ pc' = IF r.status = "" THEN next ELSE r.status

\* lines 425-430
DeleteTree ==
  /\ pc = "deleteTree"
  /\ Remove(<<tree_delete>>, "deleteOther")
  /\ UNCHANGED <<args, probe, parse, copied, walk, issuedBefore, srcFs, run, filesTree_source, filesTree_destination,
                 trees, warned>>

\* the unaccounted tree handed to removeTree first
UnaccountedThenExcluded(excluded, unaccounted) == <<unaccounted, excluded>>
\* lines 433-444: with both flags the excluded tree, then the unaccounted one
ExcludedThenUnaccounted(excluded, unaccounted) == <<excluded, unaccounted>>
\* lines 432-458
DeleteOther ==
  /\ pc = "deleteOther"
  /\ Remove(IF args.deleteExcluded /\ args.delete
              THEN ExcludedThenUnaccounted(tree_excluded_destination,
                                           tree_unaccounted_destination)
            ELSE IF args.deleteExcluded THEN <<tree_excluded_destination>>
            ELSE IF args.delete THEN <<tree_unaccounted_destination_non_excluded>>
            ELSE <<>>,
            "copy")
  /\ UNCHANGED <<args, probe, parse, copied, walk, issuedBefore, srcFs, run, filesTree_source, filesTree_destination,
                 trees, warned>>

\* a copy phase that returns without a transfer and without an exception
CopyNothing ==
  /\ pc = "copy"
  /\ pc' = "done"
  /\ UNCHANGED <<args, probe, parse, copied, walk, issuedBefore, srcFs, dstFs, run, filesTree_source, filesTree_destination,
                 trees, warned, log, ops>>
\* lines 460-475: pushTreeHere takes no showProgress, the call raises TypeError
Copy ==
  /\ pc = "copy"
  /\ pc' = IF IsNone(tree_copy) THEN "done" ELSE "crashed"
  /\ UNCHANGED <<args, probe, parse, copied, walk, issuedBefore, srcFs, dstFs, run, filesTree_source, filesTree_destination,
                 trees, warned, log, ops>>

\* FileSystem.pushTreeHere called with the arguments of its signature
\* (Base.py lines 74-83) on the trees main() has at line 460:
\* fs_destination.pushTreeHere(path_source, tree_copy, path_destination,
\* fs_source.joinPaths, fs_source.normPath, fs_destination.joinPaths,
\* fs_destination.normPath, dryRun = args.dryRun). At most one transfer of
\* the pass ends other than with exit code 0 and captured lines.
PushTreeHere ==
  /\ pc = "copy"
  /\ IF IsNone(tree_copy)
     THEN pc' = "done" /\ UNCHANGED <<dstFs, copied>>
     ELSE \E calls \in {pushTreeHere(path_source, tree_copy, path_destination, args.dryRun)} :
            \E at \in 0 .. Transfers(calls), outcome \in TransferOutcomes :
              \E r \in {IssueCopy(fs_destination, dstFs, calls, 0,
                                   [at |-> at, outcome |-> outcome])} :
                /\ dstFs' = r.fs
                /\ copied' = copied \o r.done
                /\ pc' = IF r.status = "" THEN "done" ELSE r.status
  /\ UNCHANGED <<args, probe, parse, walk, issuedBefore, srcFs, run, filesTree_source,
                 filesTree_destination, trees, warned, log, ops>>

\* the same command line once more, on the trees the first run left
Rerun ==
  /\ pc = "done"
  /\ run = 1
  /\ ~args.dryRun
  /\ run' = 2
  /\ pc' = "testConnection"
  /\ filesTree_source' = None
  /\ filesTree_destination' = None
  /\ tree_delete' = None
  /\ tree_copy' = None
  /\ tree_excluded_source' = None
  /\ tree_unaccounted_destination' = None
  /\ tree_excluded_destination' = None
  /\ tree_unaccounted_destination_non_excluded' = None
  /\ warned' = {}
  /\ log' = <<>>
  /\ ops' = <<>>
  /\ issuedBefore' = ops
  /\ copied' = <<>>
  /\ UNCHANGED <<args, probe, parse, walk, srcFs, dstFs>>

\* -------------------------------------------- AndroidFileSystem.lsToStat
\* A line of ls output is the sequence of its words, one space between two
\* of them; the two messages ls ends a line with are one word each.
NoSuchFileWords == "No such file or directory"
NotADirectoryWords == "Not a directory"
\* ten characters that the mode string expression takes, by their first one
ModeWords ==
  ("-rw-rw----" :> "S_IFREG") @@ ("brw-rw----" :> "S_IFBLK") @@
  ("crw-rw----" :> "S_IFCHR") @@ ("drwxrwx--x" :> "S_IFDIR") @@
  ("lrwxrwxrwx" :> "S_IFLNK") @@ ("prw-rw----" :> "S_IFIFO") @@
  ("srw-rw----" :> "S_IFSOCK")
\* [0-9]+
NumberWords == {"1", "5"}
\* [0-9]{4}-[0-9]{2}-[0-9]{2} and [0-9]{2}:[0-9]{2}; strptime takes the
\* first date and the first time only
DateWords == {"2020-01-01", "2020-13-01"}
TimeWords == {"10:00", "25:00"}
\* words that end in a colon
ColonWords == {"ls:", "/x:", "realpath:"}
\* [^ ]+ : a word that is not one of the two messages
IsField(word) == word \notin {NoSuchFileWords, NotADirectoryWords}

\* RE_NO_SUCH_FILE.fullmatch: anything, then ": No such file or directory"
NoSuchFileMatches(line) ==
  /\ Len(line) >= 2
  /\ Last(line) = NoSuchFileWords
  /\ line[Len(line) - 1] \in ColonWords
\* RE_LS_NOT_A_DIRECTORY.fullmatch: "ls: ", anything, ": Not a directory"
LsNotADirectoryMatches(line) ==
  /\ Len(line) >= 3
  /\ line[1] = "ls:"
  /\ Last(line) = NotADirectoryWords
  /\ line[Len(line) - 1] \in ColonWords

\* the words between the group and the date that RE_LS_TO_STAT asks for:
\* two device numbers, a directory size or none, a size, a link length
SizeFields(type) ==
  IF type \in {"S_IFBLK", "S_IFCHR"} THEN {2}
  ELSE IF type = "S_IFDIR" THEN {0, 1}
  ELSE IF type \in {"S_IFREG", "S_IFLNK"} THEN {1}
  ELSE {0}
\* RE_LS_TO_STAT.fullmatch with the hard link count there (nlink = 1) or
\* not (0) and with sizes words between group and date
LsToStatFits(line, nlink, sizes) ==
  LET date == 1 + nlink + 2 + sizes + 1
  IN /\ Len(line) >= date + 2
     /\ line[1] \in DOMAIN ModeWords
     /\ nlink = 1 => line[2] \in NumberWords
     /\ \A i \in 2 + nlink .. date - 1 : IsField(line[i])
     /\ sizes = 1 => line[date - 1] \in NumberWords
     /\ line[date] \in DateWords
     /\ line[date + 1] \in TimeWords
\* the words at which the date stands in a line that matches
LsToStatDates(line) ==
  {1 + f[1] + 2 + f[2] + 1 :
     f \in {f \in (0 .. 1) \X (0 .. 2) :
              /\ line # <<>> /\ line[1] \in DOMAIN ModeWords
              /\ f[2] \in SizeFields(ModeWords[line[1]])
              /\ LsToStatFits(line, f[1], f[2])}}

\* what lsToStat returns: the name, None for a link, and the stat
StatOf(filename, st_mode, st_size, st_mtime) ==
  [k |-> "stat", filename |-> filename, st_mode |-> st_mode, st_size |-> st_size,
   st_mtime |-> st_mtime]
\* datetime.strptime(st_mtime, "%Y-%m-%d %H:%M") raises ValueError for a
\* month 13 and for an hour 25
strptimeRaises(date, time) == date # "2020-01-01" \/ time # "10:00"

\* Android.py lines 85-120
lsToStat(line) ==
  IF NoSuchFileMatches(line) THEN Raised("FileNotFoundError")
  ELSE IF LsNotADirectoryMatches(line) THEN Raised("NotADirectoryError")
  ELSE IF LsToStatDates(line) # {}
  THEN LET date == CHOOSE i \in LsToStatDates(line) : TRUE
           type == ModeWords[line[1]]
       IN IF strptimeRaises(line[date], line[date + 1]) THEN Raised("ValueError")
          ELSE StatOf(IF type = "S_IFLNK" THEN None
                      ELSE SubSeq(line, date + 2, Len(line)),
                      type,
                      IF type = "S_IFREG" THEN line[date - 1] ELSE None,
                      <<line[date], line[date + 1]>>)
  ELSE Raised("SystemExit")

ParseIdle == [line |-> <<>>, result |-> None]

\* AndroidFileSystem.lstat of the source root (Android.py lines 144-146,
\* Base.py line 55) on the first line adb shell ls -lad prints, and what
\* main() does with an exception (lines 327-332)
LsToStat ==
  /\ pc = "lsToStat"
  /\ parse' = [parse EXCEPT !.result = lsToStat(parse.line)]
  /\ pc' = IF IsRaised(lsToStat(parse.line)) THEN Ending(lsToStat(parse.line).e)
           ELSE "parsed"
  /\ UNCHANGED <<args, probe, copied, walk, issuedBefore, srcFs, dstFs, run, filesTree_source,
                 filesTree_destination, trees, warned, log, ops>>

\* ------------------------------------------- getFilesTree, call by call
\* The snapshot of the source followed one backend call at a time: the
\* calls of _getFilesTree that are on the Python stack, innermost last, and
\* the adb shell commands whose Popen block has not been left.

\* the real path of a link, as the names below the root of the walk
RealPath(names) == [k |-> "R", names |-> names]
\* realPath of a link and the node there
Resolve(root, node) == IF node.to.k = "R" THEN FsAt(root, node.to.names) ELSE node.to

\* a call of _getFilesTree: the node at tree_root, the key its result gets in
\* the dict of the caller, and where the call is: at its first test
\* ("enter"), in the loop over lstat_inDir ("list", with the names still to
\* come and the dict built so far), or in the call for the real path of a
\* link ("follow")
Frame(node, key) == [node |-> node, key |-> key, phase |-> "enter", todo |-> <<>>, acc |-> EmptyDict]

WalkIdle == [status |-> "idle", stack |-> <<>>, open |-> <<>>, value |-> None, error |-> "", calls |-> 0]
WalkRaised(w, e, n) == [status |-> "raised", stack |-> <<>>, open |-> <<>>, value |-> None, error |-> e, calls |-> w.calls + n]

Front(s) == SubSeq(s, 1, Len(s) - 1)

\* the commands still open once the call at depth n has returned
ClosedAt(open, n) == SelectSeq(open, LAMBDA command : command.at # n)

\* return v from the innermost call: the caller in its loop stores it under
\* the key, the caller that follows a link returns it in turn
RECURSIVE WalkReturn(_, _)
WalkReturn(w, v) ==
  LET top == Last(w.stack)
      rest == Front(w.stack)
      open == ClosedAt(w.open, Len(w.stack))
  IN IF rest = <<>>
     THEN [w EXCEPT !.status = "returned", !.stack = <<>>, !.open = open, !.value = v]
     ELSE IF Last(rest).phase = "follow"
     THEN WalkReturn([w EXCEPT !.stack = rest, !.open = open], v)
     ELSE [w EXCEPT !.stack = Front(rest) \o
                      <<[Last(rest) EXCEPT !.acc = (top.key :> v) @@ Last(rest).acc]>>,
                    !.open = open]

\* one more call of _getFilesTree, or RecursionError when the stack is full
WalkCall(w, frame, n) ==
  IF Len(w.stack) >= RecursionLimit THEN WalkRaised(w, "RecursionError", n)
  ELSE [w EXCEPT !.stack = Append(w.stack, frame), !.calls = w.calls + n]

\* Base.py lines 54-56: the lstat of the root, then the first call
WalkStart ==
  /\ pc = "snapshotSource"
  /\ walk.status = "idle"
  /\ walk' = IF lstatRaises(fs_source, srcFs) # ""
             THEN WalkRaised(walk, lstatRaises(fs_source, srcFs), 1)
             ELSE [walk EXCEPT !.status = "walking", !.stack = <<Frame(srcFs, "")>>,
                               !.calls = 1]
  /\ UNCHANGED <<args, probe, parse, copied, issuedBefore, srcFs, dstFs, pc, run, filesTree_source,
                 filesTree_destination, trees, warned, log, ops>>

\* Base.py lines 24-40 and 49-52: a link is skipped or followed (realPath,
\* then lstat of the real path), a directory starts its listing, which on
\* the Android backend starts adb shell ls -la, a file returns its times
WalkEnter ==
  /\ walk.status = "walking"
  /\ Last(walk.stack).phase = "enter"
  /\ LET top == Last(walk.stack)
         node == top.node
         st == lstat(fs_source, node)
         times == Tuple(Bucket(st.st_atime), Bucket(st.st_mtime))
         target == Resolve(srcFs, node)
         n == Len(walk.stack)
     IN walk' =
          IF node.k = "L"
          THEN IF ~args.copyLinks THEN WalkReturn(walk, None)
               ELSE IF lstatRaises(fs_source, target) \in {"FileNotFoundError", "NotADirectoryError"}
               THEN WalkReturn([walk EXCEPT !.calls = @ + 2], None)
               ELSE IF lstatRaises(fs_source, target) # ""
               THEN WalkRaised(walk, lstatRaises(fs_source, target), 2)
               ELSE WalkCall([walk EXCEPT !.stack[n].phase = "follow"], Frame(target, ""), 2)
          ELSE IF node.k = "D"
          THEN [walk EXCEPT !.stack[n].phase = "list",
                            !.stack[n].todo = KeysFrom(DOMAIN node.c, 1),
                            !.open = IF fs_source = "android"
                                     THEN Append(@, [at |-> n, exited |-> FALSE])
                                     ELSE @,
                            !.calls = @ + 1]
          ELSE WalkReturn(walk, times)
  /\ UNCHANGED <<args, probe, parse, copied, issuedBefore, srcFs, dstFs, pc, run, filesTree_source,
                 filesTree_destination, trees, warned, log, ops>>

\* Base.py lines 41-48: the next entry of the listing and the call for it,
\* or the end of the listing, where the generator leaves the Popen block
\* and the call returns its dict. Local.lstat_inDir stats each name as it
\* comes (one more backend call), Android.lstat_inDir parses the next line.
WalkList ==
  /\ walk.status = "walking"
  /\ Last(walk.stack).phase = "list"
  /\ LET top == Last(walk.stack)
         node == top.node
         st == lstat(fs_source, node)
         times == Tuple(Bucket(st.st_atime), Bucket(st.st_mtime))
         n == Len(walk.stack)
         filename == Head(top.todo)
         child == node.c[filename]
         stats == IF fs_source = "local" THEN 1 ELSE 0
     IN walk' =
          IF top.todo = <<>> THEN WalkReturn(walk, MkDict(times, top.acc))
          ELSE IF lstatRaises(fs_source, child) # ""
          THEN WalkRaised(walk, lstatRaises(fs_source, child), stats)
          ELSE IF joinPathsRaises(fs_source, child) # ""
          THEN WalkRaised(walk, joinPathsRaises(fs_source, child), stats)
          ELSE WalkCall([walk EXCEPT !.stack[n].todo = Tail(top.todo)],
                        Frame(child, filename), stats)
  /\ UNCHANGED <<args, probe, parse, copied, issuedBefore, srcFs, dstFs, pc, run, filesTree_source,
                 filesTree_destination, trees, warned, log, ops>>

\* an adb process ends by itself once it has written its output; when, is
\* up to the device and the pipe
CommandExits ==
  /\ \E i \in 1 .. Len(walk.open) :
       /\ ~walk.open[i].exited
       /\ walk' = [walk EXCEPT !.open[i].exited = TRUE]
  /\ UNCHANGED <<args, probe, parse, copied, issuedBefore, srcFs, dstFs, pc, run, filesTree_source,
                 filesTree_destination, trees, warned, log, ops>>

\* __init__.py lines 325-332 once getFilesTree has returned or raised
WalkDone ==
  /\ pc = "snapshotSource"
  /\ walk.status \in {"returned", "raised"}
  /\ IF walk.status = "returned"
     THEN pc' = "snapshotDestination" /\ filesTree_source' = walk.value
     ELSE pc' = Ending(walk.error) /\ UNCHANGED filesTree_source
  /\ UNCHANGED <<args, probe, parse, copied, walk, issuedBefore, srcFs, dstFs, run,
                 filesTree_destination, trees, warned, log, ops>>

\* ----------------------------------------------------------- initial states
\* raw (atime, mtime) of the files: 100 s and 100 s; 30.5 s and 130.5 s;
\* 30.5 s and 119.5 s; then ever newer ones
StatTable(i) ==
  IF i = 0 THEN [a |-> Sec(100), m |-> Sec(100)]
  ELSE IF i = 1 THEN [a |-> Sec(30) + 1, m |-> Sec(130) + 1]
  ELSE IF i = 2 THEN [a |-> Sec(30) + 1, m |-> Sec(119) + 1]
  ELSE [a |-> Sec(200), m |-> Sec(100 + 60 * i)]
Files(maxStat) == {File(StatTable(i).a, StatTable(i).m) : i \in 0 .. maxStat}

RECURSIVE FsCount(_)
RECURSIVE FsCountAll(_, _)
FsCountAll(c, S) ==
  IF S = {} THEN 0
  ELSE LET n == CHOOSE n \in S : TRUE IN FsCount(c[n]) + FsCountAll(c, S \ {n})
\* the entries of a tree, its root included
FsCount(node) ==
  IF node.k = "D" THEN 1 + FsCountAll(node.c, DOMAIN node.c)
  ELSE IF node.k = "F" THEN 1 ELSE 0

\* the trees of at most cap entries below the root
RECURSIVE FsTrees(_, _)
FsTrees(cap, maxStat) ==
  Files(maxStat) \cup
  (IF cap = 0 THEN {Directory(Sec(75), Sec(61), EmptyDict)}
   ELSE {t \in {Directory(Sec(75), Sec(61), c) :
                  c \in UNION {[S -> FsTrees(cap - 1, maxStat)] : S \in SUBSET Names}} :
           FsCount(t) - 1 <= cap})

FsPairs(cap, maxStat) ==
  {p \in (FsTrees(cap, maxStat) \cup {Absent}) \X (FsTrees(cap, maxStat) \cup {Absent}) :
     FsCount(p[1]) + FsCount(p[2]) <= cap + 2}

\* --exclude patterns: "*b", "a", "*", then "a/b"
PatternTable(i) ==
  IF i = 0 THEN <<"*", "b">>
  ELSE IF i = 1 THEN <<"a">>
  ELSE IF i = 2 THEN <<"*">>
  ELSE <<"a", "/", "b">>
\* args.exclude: no pattern, one pattern, or two neighbours of the table
ExcludeLists(maxPattern) ==
  {<<>>} \cup {<<PatternTable(i)>> : i \in 0 .. maxPattern}
         \cup {<<PatternTable(i - 1), PatternTable(i)>> : i \in 1 .. maxPattern}

ArgsSet(maxPattern) ==
  [dryRun : BOOLEAN, force : BOOLEAN, delete : BOOLEAN, deleteExcluded : BOOLEAN,
   pull : BOOLEAN, copyLinks : {FALSE}, exclude : ExcludeLists(maxPattern)]

InitRest ==
  /\ run = 1
  /\ filesTree_source = None
  /\ filesTree_destination = None
  /\ tree_delete = None
  /\ tree_copy = None
  /\ tree_excluded_source = None
  /\ tree_unaccounted_destination = None
  /\ tree_excluded_destination = None
  /\ tree_unaccounted_destination_non_excluded = None
  /\ warned = {}
  /\ log = <<>>
  /\ ops = <<>>
  /\ issuedBefore = <<>>
  /\ copied = <<>>
  /\ walk = WalkIdle
  /\ parse = ParseIdle

Init ==
  /\ args \in ArgsSet(MaxPattern)
  /\ probe \in ProbeSamples
  /\ \E p \in FsPairs(MaxNodes, MaxStat) : srcFs = p[1] /\ dstFs = p[2]
  /\ pc = "testConnection"
  /\ InitRest

Next ==
  \/ TestConnection
  \/ SnapshotSource
  \/ SnapshotDestination
  \/ Diff
  \/ Prune
  \/ DeleteTree
  \/ DeleteOther
  \/ Copy
  \/ Rerun

Spec == Init /\ [][Next]_vars

\* ------------------------------------------------ main() from line 365 on
\* The states in which main() calls diffTrees, for larger trees, more file
\* times and more patterns; --dry-run, --del and --delete-excluded are off.
InitDiff ==
  /\ args \in [dryRun : {FALSE}, force : BOOLEAN, delete : {FALSE},
               deleteExcluded : {FALSE}, pull : BOOLEAN, copyLinks : {FALSE},
               exclude : ExcludeLists(DiffMaxPattern)]
  /\ probe = <<>>
  /\ \E p \in FsPairs(DiffMaxNodes, DiffMaxStat) :
       /\ p[1] # Absent
       /\ srcFs = p[1]
       /\ dstFs = p[2]
       /\ filesTree_source = getFilesTree(fs_source, p[1], FALSE).tree
       /\ filesTree_destination = getFilesTree(fs_destination, p[2], FALSE).tree
  /\ pc = "diff"
  /\ run = 1
  /\ tree_delete = None
  /\ tree_copy = None
  /\ tree_excluded_source = None
  /\ tree_unaccounted_destination = None
  /\ tree_excluded_destination = None
  /\ tree_unaccounted_destination_non_excluded = None
  /\ warned = {}
  /\ log = <<>>
  /\ ops = <<>>
  /\ issuedBefore = <<>>
  /\ copied = <<>>
  /\ walk = WalkIdle
  /\ parse = ParseIdle

NextDiff == Diff \/ Prune

SpecDiff == InitDiff /\ [][NextDiff]_vars

\* ---------------------------------- pushTreeHere on the trees of main()
\* The states in which main() calls diffTrees, then the prune, the delete
\* phase and FileSystem.pushTreeHere on the copy tree.
InitCopy ==
  /\ args \in [dryRun : BOOLEAN, force : BOOLEAN, delete : BOOLEAN,
               deleteExcluded : BOOLEAN, pull : BOOLEAN, copyLinks : {FALSE},
               exclude : ExcludeLists(MaxPattern)]
  /\ probe = <<>>
  /\ \E p \in FsPairs(CopyMaxNodes, MaxStat) :
       /\ p[1] # Absent
       /\ srcFs = p[1]
       /\ dstFs = p[2]
       /\ filesTree_source = getFilesTree(fs_source, p[1], FALSE).tree
       /\ filesTree_destination = getFilesTree(fs_destination, p[2], FALSE).tree
  /\ pc = "diff"
  /\ run = 1
  /\ tree_delete = None
  /\ tree_copy = None
  /\ tree_excluded_source = None
  /\ tree_unaccounted_destination = None
  /\ tree_excluded_destination = None
  /\ tree_unaccounted_destination_non_excluded = None
  /\ warned = {}
  /\ log = <<>>
  /\ ops = <<>>
  /\ issuedBefore = <<>>
  /\ copied = <<>>
  /\ walk = WalkIdle
  /\ parse = ParseIdle

NextCopy == Diff \/ Prune \/ DeleteTree \/ DeleteOther \/ PushTreeHere

SpecCopy == InitCopy /\ [][NextCopy]_vars

\* --------------------------------------------- the scenario of the spec
\* source = {a.txt: mtime 120, sub: {".": mtime 60, b.txt: mtime 180}},
\* destination = {a.txt: mtime 60, old.txt: mtime 60}, no --exclude
ScenarioSource ==
  Directory(Sec(75), Sec(61),
            ("a.txt" :> File(Sec(120), Sec(120))) @@
            ("sub" :> Directory(Sec(60), Sec(60), "b.txt" :> File(Sec(180), Sec(180)))))
ScenarioDestination ==
  Directory(Sec(75), Sec(61),
            ("a.txt" :> File(Sec(60), Sec(60))) @@ ("old.txt" :> File(Sec(60), Sec(60))))

InitScenario ==
  /\ args \in [dryRun : BOOLEAN, force : BOOLEAN, delete : BOOLEAN,
               deleteExcluded : BOOLEAN, pull : BOOLEAN, copyLinks : {FALSE},
               exclude : {<<>>}]
  /\ probe \in ProbeSamples
  /\ srcFs = ScenarioSource
  /\ dstFs = ScenarioDestination
  /\ pc = "testConnection"
  /\ InitRest

NextRun ==
  \/ TestConnection
  \/ SnapshotSource
  \/ SnapshotDestination
  \/ Diff
  \/ Prune
  \/ DeleteTree
  \/ DeleteOther
  \/ Copy

SpecScenario == InitScenario /\ [][NextRun]_vars

\* ------------------------------------- links and entries that do not stat
\* What a directory can hold besides a plain file: a link to a file, a
\* dangling link, a link to a directory, and entries whose lstat fails.
SnapLeaves ==
  {File(Sec(100), Sec(100)),
   Symlink(Sec(100), Sec(100), File(Sec(160), Sec(160))),
   Symlink(Sec(100), Sec(100), Absent),
   Symlink(Sec(100), Sec(100),
           Directory(Sec(75), Sec(61), "b" :> File(Sec(160), Sec(160)))),
   Raises("FileNotFoundError"), Raises("NotADirectoryError"), Raises("PermissionError")}
SnapInner == {Directory(Sec(75), Sec(61), c) : c \in [{"a"} -> SnapLeaves]}
SnapRoots ==
  {Absent} \cup SnapLeaves \cup
  {Directory(Sec(75), Sec(61), c) :
     c \in UNION {[S -> SnapLeaves \cup SnapInner] : S \in SUBSET Names}}
\* the other side: nothing, a file, a directory with a file
SnapPlain ==
  {Absent, File(Sec(100), Sec(100)),
   Directory(Sec(75), Sec(61), "a" :> File(Sec(100), Sec(100)))}

InitSnap ==
  /\ args \in [dryRun : {FALSE}, force : {FALSE}, delete : BOOLEAN,
               deleteExcluded : {FALSE}, pull : BOOLEAN, copyLinks : BOOLEAN,
               exclude : {<<>>}]
  /\ probe \in ProbeSamples
  /\ \/ srcFs \in SnapRoots /\ dstFs \in SnapPlain
     \/ srcFs \in SnapPlain /\ dstFs \in SnapRoots
  /\ pc = "testConnection"
  /\ InitRest

SpecSnap == InitSnap /\ [][NextRun]_vars

\* ------------------------------------------------ the outputs of the probe
InitProbe ==
  /\ args \in [dryRun : BOOLEAN, force : {FALSE}, delete : BOOLEAN,
               deleteExcluded : {FALSE}, pull : BOOLEAN, copyLinks : {FALSE},
               exclude : {<<>>}]
  /\ probe \in ProbeOutputs
  /\ srcFs \in SnapPlain
  /\ dstFs \in SnapPlain
  /\ pc = "testConnection"
  /\ InitRest

SpecProbe == InitProbe /\ [][NextRun]_vars

\* ------------------------------------- the source snapshot, call by call
\* What a directory of the walk can hold: a file, a link to a file, a
\* dangling link, a link to the root of the walk (a directory above the
\* link), an entry that is gone when it is stat-ed; and directories of those.
WalkLeaves ==
  {File(Sec(100), Sec(100)),
   Symlink(Sec(100), Sec(100), File(Sec(160), Sec(160))),
   Symlink(Sec(100), Sec(100), Absent),
   Symlink(Sec(100), Sec(100), RealPath(<<>>)),
   Raises("FileNotFoundError")}
WalkInner ==
  {Directory(Sec(75), Sec(61), c) : c \in UNION {[S -> WalkLeaves] : S \in {{}, {"a"}}}}
WalkRoots ==
  {File(Sec(100), Sec(100)),
   Symlink(Sec(100), Sec(100), Absent),
   Symlink(Sec(100), Sec(100),
           Directory(Sec(75), Sec(61), "b" :> File(Sec(160), Sec(160))))} \cup
  {Directory(Sec(75), Sec(61), c) :
     c \in UNION {[S -> WalkLeaves \cup WalkInner] : S \in SUBSET Names}}

InitWalk ==
  /\ args \in [dryRun : {FALSE}, force : {FALSE}, delete : {FALSE},
               deleteExcluded : {FALSE}, pull : BOOLEAN, copyLinks : BOOLEAN,
               exclude : {<<>>}]
  /\ probe = <<>>
  /\ srcFs \in WalkRoots
  /\ dstFs = Absent
  /\ pc = "snapshotSource"
  /\ InitRest

NextWalk ==
  \/ WalkStart
  \/ WalkEnter
  \/ WalkList
  \/ CommandExits
  \/ WalkDone

SpecWalk == InitWalk /\ [][NextWalk]_vars

\* main() is one thread that goes on with its next call as soon as the one
\* before has returned
SpecWalkFair ==
  /\ SpecWalk
  /\ WF_vars(WalkStart \/ WalkEnter \/ WalkList \/ WalkDone)

\* the tree has a link whose real path is a directory of the walk itself
RECURSIVE HasLinkUp(_)
HasLinkUp(node) ==
  \/ node.k = "L" /\ (node.to.k = "R" \/ HasLinkUp(node.to))
  \/ node.k = "D" /\ \E name \in DOMAIN node.c : HasLinkUp(node.c[name])

\* the walk that is followed call by call ends as getFilesTree does, where
\* no followed link leads back into the walk
WalkAgrees ==
  (pc # "snapshotSource" /\ ~(args.copyLinks /\ HasLinkUp(srcFs))) =>
    LET r == getFilesTree(fs_source, srcFs, args.copyLinks)
    IN IF r.error = ""
       THEN pc = "snapshotDestination" /\ filesTree_source = r.tree
       ELSE pc = Ending(r.error)

\* -------------------------------------------------- the lines of ls output
\* Lines of a listing: a mode string or ten other characters, with or
\* without the hard link count, user and group, none to two words before
\* the date, a date and a time that are or are not on the calendar, and a
\* name, which may have a space in it, be "name -> target" or end like a
\* message of ls; and lines that are no listing.
ListingLines ==
  {<<mode>> \o nlink \o <<"root", "sdcard_rw">> \o sizes \o <<date, time>> \o name :
     mode \in DOMAIN ModeWords \cup {"?rw-rw----"},
     nlink \in {<<>>, <<"1">>},
     sizes \in {<<>>, <<"5">>, <<"1,", "5">>},
     date \in DateWords, time \in TimeWords,
     name \in {<<>>, <<"f">>, <<"a", "b">>, <<"l", "->", "/t">>,
               <<"/x:", NoSuchFileWords>>}}
MessageLines ==
  {<<"ls:", "/x:", NoSuchFileWords>>, <<"ls:", "/x:", NotADirectoryWords>>,
   <<"realpath:", "/x:", NoSuchFileWords>>, <<"realpath:", "/x:", NotADirectoryWords>>,
   <<"ls:", "/x:", "Permission", "denied">>, <<"total", "5">>, <<"/x">>}
LsLines == ListingLines \cup MessageLines

InitParse ==
  /\ args \in [dryRun : {FALSE}, force : {FALSE}, delete : {FALSE},
               deleteExcluded : {FALSE}, pull : {TRUE}, copyLinks : {FALSE},
               exclude : {<<>>}]
  /\ probe = <<>>
  /\ srcFs = Absent
  /\ dstFs = Absent
  /\ pc = "lsToStat"
  /\ run = 1
  /\ filesTree_source = None
  /\ filesTree_destination = None
  /\ tree_delete = None
  /\ tree_copy = None
  /\ tree_excluded_source = None
  /\ tree_unaccounted_destination = None
  /\ tree_excluded_destination = None
  /\ tree_unaccounted_destination_non_excluded = None
  /\ warned = {}
  /\ log = <<>>
  /\ ops = <<>>
  /\ issuedBefore = <<>>
  /\ copied = <<>>
  /\ walk = WalkIdle
  /\ parse \in [line : LsLines, result : {None}]

NextParse == LsToStat

SpecParse == InitParse /\ [][NextParse]_vars

\* ------------------------------------------------- pruneTree on any tree
\* Trees of the kind diffTrees returns, and more: None, a tuple, and dicts
\* with or without a self-entry, with None entries and with empty dicts, to
\* a depth of MaxPruneDepth.
RECURSIVE PyTrees(_)
PyTrees(depth) ==
  {None, Tuple(60, 60)} \cup
  (IF depth = 0 THEN {}
   ELSE {Dict(d) : d \in UNION {[S -> PyTrees(depth - 1)] : S \in SUBSET Names}}
        \cup {MkDict(dot, d) : dot \in {None, Tuple(60, 60)},
                               d \in UNION {[S -> PyTrees(depth - 1)] : S \in SUBSET Names}})

InitPrune ==
  /\ args \in [dryRun : {FALSE}, force : {FALSE}, delete : {FALSE},
               deleteExcluded : {FALSE}, pull : {FALSE}, copyLinks : {FALSE},
               exclude : {<<>>}]
  /\ probe = <<>>
  /\ srcFs = Absent
  /\ dstFs = Absent
  /\ pc = "prune"
  /\ run = 1
  /\ filesTree_source = None
  /\ filesTree_destination = None
  /\ tree_delete \in PyTrees(MaxPruneDepth)
  /\ tree_copy = None
  /\ tree_excluded_source = None
  /\ tree_unaccounted_destination = None
  /\ tree_excluded_destination = None
  /\ tree_unaccounted_destination_non_excluded = None
  /\ warned = {}
  /\ log = <<>>
  /\ ops = <<>>
  /\ issuedBefore = <<>>
  /\ copied = <<>>
  /\ walk = WalkIdle
  /\ parse = ParseIdle

NextPrune == Prune

SpecPrune == InitPrune /\ [][NextPrune]_vars

\* ------------------------------------------------- two files, many times
\* raw times around the epoch: second 0, 40 and 59 of each minute, with and
\* without a fraction of a second
QuantTimes ==
  {Sec(60 * k + s) + f : k \in -QuantSpan .. QuantSpan - 1, s \in {0, 40, 59},
                         f \in {0, 1}}

InitQuant ==
  /\ args \in [dryRun : {FALSE}, force : {FALSE}, delete : {FALSE},
               deleteExcluded : {FALSE}, pull : BOOLEAN, copyLinks : {FALSE},
               exclude : {<<>>}]
  /\ probe = <<>>
  /\ \E ms, md \in QuantTimes, as, ad \in {Sec(100), Sec(-30) - 1} :
       srcFs = File(as, ms) /\ dstFs = File(ad, md)
  /\ pc = "snapshotSource"
  /\ InitRest

NextQuant == SnapshotSource \/ SnapshotDestination \/ Diff

SpecQuant == InitQuant /\ [][NextQuant]_vars

\* ============================================================== properties
\* Positions of a tree: the names on the way down from the root.
RECURSIVE PositionsUpTo(_)
PositionsUpTo(n) ==
  IF n = 0 THEN {<<>>}
  ELSE PositionsUpTo(n - 1) \cup
       {Append(q, name) : q \in {q \in PositionsUpTo(n - 1) : Len(q) = n - 1},
                          name \in Names}
Positions == PositionsUpTo(IF MaxNodes > DiffMaxNodes THEN MaxNodes ELSE DiffMaxNodes)

\* the node of a Python tree at a position, None where there is none
RECURSIVE At(_, _)
At(tree, names) ==
  IF names = <<>> THEN tree
  ELSE IF IsDict(tree) /\ Head(names) \in DOMAIN tree.d
  THEN At(tree.d[Head(names)], Tail(names))
  ELSE None

\* the destination path of a position
RECURSIVE PathOf(_)
PathOf(names) ==
  IF names = <<>> THEN path_destination
  ELSE joinPaths(PathOf(SubSeq(names, 1, Len(names) - 1)), <<Last(names)>>)

\* the two snapshots as getFilesTree returns them for the trees as they are
SourceSnapshot == getFilesTree(fs_source, srcFs, args.copyLinks).tree
DestinationSnapshot == getFilesTree(fs_destination, dstFs, args.copyLinks).tree
SourceAt(names) == At(SourceSnapshot, names)
DestinationAt(names) == At(DestinationSnapshot, names)

\* the position's destination path matches an exclusion pattern
ExcludedAt(names) ==
  ExcludedPath(PathOf(names), excludePatterns(SourceSnapshot, args.exclude))
\* a file at the source and a directory at the destination, or the reverse
ConflictAt(names) ==
  \/ IsTuple(SourceAt(names)) /\ IsDict(DestinationAt(names))
  \/ IsDict(SourceAt(names)) /\ IsTuple(DestinationAt(names))
\* diffTrees is called for the position: every position above it is not
\* excluded and holds a directory on a side the recursion follows
Prefixes(names) == {SubSeq(names, 1, n) : n \in 0 .. Len(names) - 1}
ReachedAt(names) ==
  /\ ~IsNone(SourceAt(names)) \/ ~IsNone(DestinationAt(names))
  /\ \A q \in Prefixes(names) :
       /\ ~ExcludedAt(q)
       /\ IsDict(SourceAt(q)) \/ (IsNone(SourceAt(q)) /\ IsDict(DestinationAt(q)))
       /\ IsDict(SourceAt(q)) /\ ~IsDict(DestinationAt(q))
            => ~IsNone(SourceAt(names))

\* main() has the five trees of diffTrees, not yet pruned
Diffed == pc = "prune"
NothingAt(names) ==
  /\ IsNone(At(tree_delete, names))
  /\ IsNone(At(tree_copy, names))
  /\ IsNone(At(tree_excluded_source, names))
  /\ IsNone(At(tree_unaccounted_destination, names))
  /\ IsNone(At(tree_excluded_destination, names))

\* C9: for a pair of files that is not excluded, delete is the destination
\* file and copy the source file exactly when the source mtime is strictly
\* greater; otherwise all five trees are None there.  atime plays no part.
C9_MtimeTieBreak ==
  Diffed =>
    \A names \in Positions :
      (ReachedAt(names) /\ ~ExcludedAt(names)
         /\ IsTuple(SourceAt(names)) /\ IsTuple(DestinationAt(names)))
      => IF SourceAt(names).m > DestinationAt(names).m
         THEN /\ At(tree_delete, names) = DestinationAt(names)
              /\ At(tree_copy, names) = SourceAt(names)
              /\ IsNone(At(tree_excluded_source, names))
              /\ IsNone(At(tree_unaccounted_destination, names))
              /\ IsNone(At(tree_excluded_destination, names))
         ELSE NothingAt(names)

\* two files with one mtime and different atimes were diffed below the root
C9_Witness ==
  /\ Diffed
  /\ \E names \in Positions \ {<<>>} :
       /\ ReachedAt(names) /\ ~ExcludedAt(names)
       /\ IsTuple(SourceAt(names)) /\ IsTuple(DestinationAt(names))
       /\ SourceAt(names).m = DestinationAt(names).m
       /\ SourceAt(names).a > DestinationAt(names).a
       /\ NothingAt(names)

\* the positions below a position
Below(names) ==
  {q \in Positions : Len(q) > Len(names) /\ SubSeq(q, 1, Len(names)) = names}
\* no position from just below names down to q matches an exclusion pattern
NotExcludedBetween(names, q) ==
  \A n \in Len(names) + 1 .. Len(q) : ~ExcludedAt(SubSeq(q, 1, n))
\* a file at the source and a directory at the destination, not excluded
FileOverDirectoryAt(names) ==
  /\ ReachedAt(names) /\ ~ExcludedAt(names)
  /\ IsTuple(SourceAt(names)) /\ IsDict(DestinationAt(names))
\* a directory at the source and a file at the destination, not excluded
DirectoryOverFileAt(names) ==
  /\ ReachedAt(names) /\ ~ExcludedAt(names)
  /\ IsDict(SourceAt(names)) /\ IsTuple(DestinationAt(names))

\* C5: with folderFileOverwriteError a conflict that is not excluded ends the
\* call with nothing returned.  Without it, a file over a directory returns
\* the whole destination subtree as delete and the source file as copy, with
\* nothing unaccounted and nothing excluded at the destination there; a
\* directory over a file returns the destination file as delete and as copy
\* the directory's self-entry with every source descendant that is not
\* excluded.
C5_DiffConflictPolicy ==
  /\ (/\ pc # "diff"
      /\ overwriteIsError(args)
      /\ \E names \in Positions : FileOverDirectoryAt(names) \/ DirectoryOverFileAt(names))
     => pc = "fatal" /\ NothingAt(<<>>) /\ warned = {}
  /\ Diffed =>
       \A names \in Positions :
         /\ FileOverDirectoryAt(names) =>
              /\ At(tree_delete, names) = DestinationAt(names)
              /\ At(tree_copy, names) = SourceAt(names)
              /\ IsNone(At(tree_excluded_source, names))
              /\ IsNone(pruneTree(At(tree_unaccounted_destination, names)))
              /\ IsNone(pruneTree(At(tree_excluded_destination, names)))
              /\ PathOf(names) \in warned
         /\ DirectoryOverFileAt(names) =>
              /\ At(tree_delete, names) = DestinationAt(names)
              /\ IsDict(At(tree_copy, names))
              /\ Get(At(tree_copy, names), ".") = Get(SourceAt(names), ".")
              /\ \A q \in Below(names) :
                   IF IsNone(SourceAt(q)) \/ ~NotExcludedBetween(names, q)
                   THEN IsNone(pruneTree(At(tree_copy, q)))
                   ELSE IF IsTuple(SourceAt(q))
                   THEN At(tree_copy, q) = SourceAt(q)
                   ELSE Get(At(tree_copy, q), ".") = Get(SourceAt(q), ".")
              /\ IsNone(At(tree_unaccounted_destination, names))
              /\ IsNone(At(tree_excluded_destination, names))
              /\ PathOf(names) \in warned

\* a file was diffed against a directory that holds a file, with --force
C5_Witness ==
  /\ Diffed
  /\ \E names \in Positions :
       /\ FileOverDirectoryAt(names)
       /\ \E q \in Below(names) : IsTuple(DestinationAt(q))
       /\ At(tree_delete, names) = DestinationAt(names)
       /\ At(tree_copy, names) = SourceAt(names)

\* a file that only the destination has, at a path that matches a pattern
ExcludedDestinationOnlyFileAt(names) ==
  /\ IsTuple(DestinationAt(names))
  /\ IsNone(SourceAt(names))
  /\ ExcludedAt(names)
\* the position lies in a directory that an overridden conflict replaces
\* with a file
BelowFileOverDirectory(names) == \E q \in Prefixes(names) : FileOverDirectoryAt(q)

\* C7 as stated: a file only the destination has, at a path that matches an
\* exclusion pattern, is in excluded_destination and neither in
\* unaccounted_destination nor in delete, whatever its ancestors are.
C7_AsClaimed ==
  Diffed =>
    \A names \in Positions :
      ExcludedDestinationOnlyFileAt(names)
      => /\ At(tree_excluded_destination, names) = DestinationAt(names)
         /\ IsNone(At(tree_unaccounted_destination, names))
         /\ IsNone(At(tree_delete, names))

\* C7: a file only the destination has, at a path that matches an exclusion
\* pattern, is in excluded_destination and neither in unaccounted_destination
\* nor in delete, unless it lies in a directory that is not excluded and that
\* a source file replaces; then it is in delete with the rest of that
\* directory and in neither of the other two trees.
C7_ExclusionPrecedence ==
  Diffed =>
    \A names \in Positions :
      ExcludedDestinationOnlyFileAt(names)
      => IF BelowFileOverDirectory(names)
         THEN /\ At(tree_delete, names) = DestinationAt(names)
              /\ IsNone(At(tree_unaccounted_destination, names))
              /\ IsNone(At(tree_excluded_destination, names))
         ELSE /\ At(tree_excluded_destination, names) = DestinationAt(names)
              /\ IsNone(At(tree_unaccounted_destination, names))
              /\ IsNone(At(tree_delete, names))

\* an excluded file that only the destination has was diffed in a directory
\* both sides have, and is in excluded_destination
C7_Witness ==
  /\ Diffed
  /\ \E names \in Positions \ {<<>>} :
       /\ ExcludedDestinationOnlyFileAt(names)
       /\ ReachedAt(names)
       /\ \A q \in Prefixes(names) : IsDict(SourceAt(q)) /\ IsDict(DestinationAt(q))
       /\ At(tree_excluded_destination, names) = DestinationAt(names)

\* C8 as stated: where the diff reaches a path that matches an exclusion
\* pattern and the destination holds a file, excluded_destination is that
\* file, for nothing, a file and a directory at the source alike, and
\* excluded_source is the source node if there is one.
C8_AsClaimed ==
  Diffed =>
    \A names \in Positions :
      (ReachedAt(names) /\ ExcludedAt(names) /\ IsTuple(DestinationAt(names)))
      => /\ At(tree_excluded_destination, names) = DestinationAt(names)
         /\ At(tree_excluded_source, names) = SourceAt(names)

\* 60 * floor(t / 60) of a time in ticks
FloorBucket(t) == BucketSeconds * (t \div (BucketSeconds * TicksPerSecond))
\* a stored time is the bucket the spec defines for the time lstat gave
StoredAsBucket(stored, t) ==
  /\ stored = FloorBucket(t)
  /\ stored % BucketSeconds = 0
  /\ Sec(stored) <= t /\ t < Sec(stored + BucketSeconds)
  /\ Bucket(Sec(stored)) = stored
StoredAsBuckets(backend, node, stored) ==
  /\ StoredAsBucket(stored.a, lstat(backend, node).st_atime)
  /\ StoredAsBucket(stored.m, lstat(backend, node).st_mtime)

\* C10 as stated: a snapshot stores 60 * floor(t / 60) for atime and for
\* mtime, a multiple of 60 with bucket(t) <= t < bucket(t) + 60 and
\* bucket(bucket(t)) = bucket(t); two files with raw mtimes in one minute
\* give no copy and no delete.
C10_AsClaimed ==
  /\ pc \in {"snapshotDestination", "diff", "prune"}
       => StoredAsBuckets(fs_source, srcFs, filesTree_source)
  /\ pc \in {"diff", "prune"}
       => StoredAsBuckets(fs_destination, dstFs, filesTree_destination)
  /\ pc = "prune" /\ FloorBucket(srcFs.m) = FloorBucket(dstFs.m)
       => IsNone(tree_delete) /\ IsNone(tree_copy)

\* ------------------------------------------------------------ whole runs
\* main() is past the pruning of the five trees
Pruned == pc \in {"deleteTree", "deleteOther", "copy", "done"}
\* diffTrees was called and the destination is as it was then
AfterDiff ==
  /\ ~IsNone(filesTree_source)
  /\ pc \notin {"snapshotDestination", "diff"}
  /\ ops = <<>>
\* a file and a directory meet at a position the diff reaches, not excluded
ConflictReached ==
  \E names \in Positions : FileOverDirectoryAt(names) \/ DirectoryOverFileAt(names)

\* C1: a second run on the source as it was and the destination the first
\* run left gets to its end, with nothing in its pruned delete tree and
\* nothing in its pruned copy tree.
C1_Idempotence ==
  run = 2 =>
    /\ pc = "fatal" => IsNone(filesTree_source)
    /\ pc # "crashed"
    /\ Pruned => IsNone(tree_delete) /\ IsNone(tree_copy)

\* the second run is at its end after a first run that removed something
C1_Witness ==
  /\ run = 2
  /\ pc = "done"
  /\ issuedBefore # <<>>
  /\ IsNone(tree_delete) /\ IsNone(tree_copy)

\* the conflicts the diff reached are warned about and planned: the
\* destination side is in the delete tree, the source side in the copy tree
ConflictsPlanned ==
  \A names \in Positions :
    FileOverDirectoryAt(names) \/ DirectoryOverFileAt(names)
    => /\ PathOf(names) \in warned
       /\ At(tree_delete, names) = DestinationAt(names)
       /\ ~IsNone(At(tree_copy, names))

\* C4 as stated: without --force, whatever the other options are, a conflict
\* the diff reaches at a path that is not excluded ends the run fatally; a
\* run goes on past one, with a warning, only with --force.
C4_AsClaimed ==
  (AfterDiff /\ ConflictReached)
  => IF args.force
     THEN pc # "fatal" /\ (Diffed => ConflictsPlanned)
     ELSE pc = "fatal"

\* C4: a conflict the diff reaches at a path that is not excluded ends the
\* run fatally, with no tree returned, when neither --force nor --dry-run is
\* set; with either of them the diff warns and the run goes on with the
\* destination side in the delete tree and the source side in the copy tree.
C4_RunConflictPolicy ==
  (AfterDiff /\ ConflictReached)
  => IF args.force \/ args.dryRun
     THEN pc # "fatal" /\ (Diffed => ConflictsPlanned)
     ELSE pc = "fatal" /\ NothingAt(<<>>) /\ warned = {}

\* a dry run without --force went on past a conflict, with a warning
C4_Witness ==
  /\ Diffed
  /\ args.dryRun /\ ~args.force
  /\ ConflictReached
  /\ ConflictsPlanned
  /\ warned # {}

\* the removals removeTree logs for the trees of a sequence
RECURSIVE Planned(_)
Planned(ts) ==
  IF ts = <<>> THEN <<>>
  ELSE (IF IsNone(Head(ts)) THEN <<>>
        ELSE LET calls == removeTree(path_destination, Head(ts), FALSE)
             IN [i \in 1 .. Len(calls) |-> [op |-> calls[i].op, path |-> calls[i].path]])
       \o Planned(Tail(ts))
\* the trees main() hands to removeTree after the delete tree
SelectedTrees ==
  IF args.deleteExcluded /\ args.delete
  THEN <<tree_excluded_destination, tree_unaccounted_destination>>
  ELSE IF args.deleteExcluded THEN <<tree_excluded_destination>>
  ELSE IF args.delete THEN <<tree_unaccounted_destination_non_excluded>>
  ELSE <<>>

\* C6: no step of a run with --dry-run changes a backend or issues a
\* removal, and the log has every removal of the delete tree once the delete
\* phase is over, and every removal of the trees --del and --delete-excluded
\* select once the run is at the copy phase, which issues nothing either.
C6_DryRunNoMutation ==
  [][args.dryRun =>
       /\ srcFs' = srcFs
       /\ dstFs' = dstFs
       /\ ops' = <<>>
       /\ pc' = "deleteOther" => log' = Planned(<<tree_delete>>)
       /\ pc' \in {"copy", "done"} =>
            log' = Planned(<<tree_delete>>) \o Planned(SelectedTrees)]_vars

\* a dry run is at the copy phase with removals logged, none of them issued,
\* and the destination still holds what the log names
C6_Witness ==
  /\ args.dryRun
  /\ pc = "copy"
  /\ log # <<>>
  /\ ops = <<>>
  /\ \A i \in 1 .. Len(log) : FsAt(dstFs, NamesOf(log[i].path)) # Absent

\* a directory's self-entry in a tree, None where the tree has none
SelfEntry(tree) == IF IsDict(tree) THEN Get(tree, ".") ELSE None
\* the example of the spec: U = {a: {b: File}}, E = {a: {c: File}}
ExampleUnaccounted == Dict("a" :> Dict("b" :> Tuple(60, 60)))
ExampleExcluded == Dict("a" :> Dict("c" :> Tuple(60, 60)))

\* C2: of the pruned unaccounted tree the non-excluded tree keeps every
\* file, and a directory's self-entry exactly when the excluded tree has
\* nothing at or below the directory; with --del and without
\* --delete-excluded no removal is issued at a path the excluded tree has a
\* node at or below, and what the excluded tree holds stays at the
\* destination.  U = {a: {b: File}} and E = {a: {c: File}} give
\* {a: {b: File}}.
C2_AncestorProtection ==
  /\ Pruned =>
       \A names \in Positions :
         /\ IsTuple(At(tree_unaccounted_destination, names))
              => At(tree_unaccounted_destination_non_excluded, names)
                   = At(tree_unaccounted_destination, names)
         /\ IsDict(At(tree_unaccounted_destination, names))
              => (~IsNone(SelfEntry(At(tree_unaccounted_destination_non_excluded, names)))
                   <=> /\ ~IsNone(SelfEntry(At(tree_unaccounted_destination, names)))
                       /\ IsNone(At(tree_excluded_destination, names)))
  /\ (args.delete /\ ~args.deleteExcluded /\ pc \notin {"diff", "prune"}) =>
       /\ \A i \in 1 .. Len(ops) :
            IsNone(At(tree_excluded_destination, NamesOf(ops[i].path)))
       /\ \A names \in Positions :
            ~IsNone(At(tree_excluded_destination, names))
              => FsAt(dstFs, names) # Absent
  /\ removeExludedFoldersFromUnaccountedTree(ExampleUnaccounted, ExampleExcluded)
       = ExampleUnaccounted

\* --del without --delete-excluded and not a dry run: the unaccounted
\* deletion step is over, and a directory only the destination has is still
\* there with the excluded file it holds
C2_Witness ==
  /\ pc \in {"copy", "done"}
  /\ args.delete /\ ~args.deleteExcluded /\ ~args.dryRun
  /\ \E names \in Positions \ {<<>>} :
       /\ ~IsNone(SelfEntry(At(tree_unaccounted_destination, names)))
       /\ ~IsNone(At(tree_excluded_destination, names))
       /\ IsNone(At(tree_unaccounted_destination_non_excluded, names))
       /\ FsAt(dstFs, names).k = "D"
       /\ \E q \in Below(names) :
            IsTuple(At(tree_excluded_destination, q)) /\ FsAt(dstFs, q).k = "F"

\* something only the destination has, at a path the diff reaches and no
\* pattern matches
UnaccountedAt(names) ==
  /\ ReachedAt(names) /\ ~ExcludedAt(names)
  /\ IsNone(SourceAt(names)) /\ ~IsNone(DestinationAt(names))
\* a destination node the delete tree is there for: a stale file, or what
\* an overridden conflict replaces
StaleOrConflictAt(names) ==
  \/ /\ ReachedAt(names) /\ ~ExcludedAt(names)
     /\ IsTuple(SourceAt(names)) /\ IsTuple(DestinationAt(names))
     /\ SourceAt(names).m > DestinationAt(names).m
  \/ DirectoryOverFileAt(names)
  \/ FileOverDirectoryAt(names)
  \/ BelowFileOverDirectory(names)

\* C3: the diff puts what only the destination has, where no pattern
\* matches, into unaccounted_destination and not into delete; without --del
\* a run removes none of it; without --del and --delete-excluded a run
\* removes nothing but what is in the delete tree, and the delete tree holds
\* stale files and what overridden conflicts replace.
C3_DeletionGatedByDel ==
  /\ Diffed =>
       \A names \in Positions :
         /\ UnaccountedAt(names) =>
              /\ IsNone(pruneTree(At(tree_delete, names)))
              /\ IF IsTuple(DestinationAt(names))
                 THEN At(tree_unaccounted_destination, names) = DestinationAt(names)
                 ELSE SelfEntry(At(tree_unaccounted_destination, names))
                        = SelfEntry(DestinationAt(names))
         /\ (IsTuple(At(tree_delete, names))
               \/ ~IsNone(SelfEntry(At(tree_delete, names))))
              => StaleOrConflictAt(names)
  /\ (~args.delete /\ pc \notin {"diff", "prune"}) =>
       \A names \in Positions :
         ~IsNone(At(tree_unaccounted_destination, names))
           => FsAt(dstFs, names) # Absent
  /\ (~args.delete /\ ~args.deleteExcluded /\ pc \notin {"diff", "prune"}) =>
       \A i \in 1 .. Len(ops) : ~IsNone(At(tree_delete, NamesOf(ops[i].path)))

\* a run without --del is at its end and a file only the destination has,
\* classified as unaccounted, is still there
C3_Witness ==
  /\ pc = "done"
  /\ ~args.delete /\ ~args.dryRun
  /\ \E names \in Positions \ {<<>>} :
       /\ IsTuple(At(tree_unaccounted_destination, names))
       /\ FsAt(dstFs, names).k = "F"

\* ------------------------------------------------ the scenario of the spec
ScenarioCopy ==
  Dict(("a.txt" :> Tuple(120, 120)) @@
       ("sub" :> Dict(("." :> Tuple(60, 60)) @@ ("b.txt" :> Tuple(180, 180)))))
ScenarioUnaccounted == Dict("old.txt" :> Tuple(60, 60))
ScenarioDelete == Dict("a.txt" :> Tuple(60, 60))
\* the delete phase is over
DeletePhaseOver == pc = "copy" \/ (pc = "crashed" /\ tree_copy # None)
OldTxtRemoved == FsAt(dstFs, <<"old.txt">>) = Absent

\* C11 as stated: the pruned copy tree is {a.txt: 120, sub: {".": 60,
\* b.txt: 180}}, the pruned delete tree is empty, the pruned unaccounted
\* tree is {old.txt: 60}, and the run removes old.txt exactly when --del is
\* given.
C11_AsClaimed ==
  /\ Pruned =>
       /\ tree_copy = ScenarioCopy
       /\ IsNone(tree_delete)
       /\ tree_unaccounted_destination = ScenarioUnaccounted
  /\ DeletePhaseOver => (OldTxtRemoved <=> args.delete)

\* C11: the pruned copy tree is {a.txt: 120, sub: {".": 60, b.txt: 180}},
\* the pruned delete tree is {a.txt: 60}, the stale destination file, the
\* pruned unaccounted tree is {old.txt: 60}, and the run removes old.txt
\* exactly when --del is given and --dry-run is not.
C11_Scenario ==
  /\ Pruned =>
       /\ tree_copy = ScenarioCopy
       /\ tree_delete = ScenarioDelete
       /\ tree_unaccounted_destination = ScenarioUnaccounted
       /\ IsNone(tree_excluded_source) /\ IsNone(tree_excluded_destination)
  /\ ~DeletePhaseOver => ~OldTxtRemoved
  /\ DeletePhaseOver => (OldTxtRemoved <=> (args.delete /\ ~args.dryRun))
  /\ pc \notin {"fatal", "done"} \/ IsNone(filesTree_source)

\* a run with --del is past its delete phase: old.txt and the stale a.txt
\* are gone, and the copy tree is the one of the scenario
C11_Witness ==
  /\ DeletePhaseOver
  /\ args.delete /\ ~args.dryRun
  /\ OldTxtRemoved
  /\ FsAt(dstFs, <<"a.txt">>) = Absent
  /\ tree_copy = ScenarioCopy

\* ------------------------------------------------------- the two snapshots
NothingPlanned ==
  /\ IsNone(tree_delete) /\ IsNone(tree_copy) /\ IsNone(tree_excluded_source)
  /\ IsNone(tree_unaccounted_destination) /\ IsNone(tree_excluded_destination)
  /\ IsNone(tree_unaccounted_destination_non_excluded)
  /\ warned = {}
NothingIssued == ops = <<>> /\ log = <<>>
\* the lstat of the source root raises one of the three errors
SourceRootRaises ==
  srcFs.k = "A" \/ (srcFs.k = "X" /\ srcFs.e \in {"FileNotFoundError", "NotADirectoryError",
                                                 "PermissionError"})

\* C12: when the lstat of the source root raises NotFound, NotADirectory or
\* PermissionDenied, the run ends fatally at the source snapshot: it takes
\* no destination snapshot, computes no diff and issues nothing on a backend.
C12_SourceRootErrorsFatal ==
  SourceRootRaises =>
    /\ pc \in {"testConnection", "snapshotSource", "fatal"}
    /\ IsNone(filesTree_source) /\ IsNone(filesTree_destination)
    /\ NothingPlanned
    /\ NothingIssued

\* a device is there, the source root is below something that is no
\* directory, the destination is a directory, and the run has ended fatally
C12_Witness ==
  /\ pc = "fatal"
  /\ testConnection(probe)
  /\ srcFs = Raises("NotADirectoryError")
  /\ dstFs.k = "D"

\* the lstat of the destination root raises FileNotFoundError
DestinationRootNotFound == lstatRaises(fs_destination, dstFs) = "FileNotFoundError"
\* the destination root is there and the walk below it ends in a
\* FileNotFoundError
DestinationNotFoundBelowRoot ==
  /\ lstatRaises(fs_destination, dstFs) = ""
  /\ getFilesTree(fs_destination, dstFs, args.copyLinks).error = "FileNotFoundError"

\* C13 as stated: FileNotFoundError from the lstat of the destination root
\* makes the destination snapshot None and the run goes on to the diff;
\* FileNotFoundError from a stat below the destination root ends the run at
\* the destination snapshot and never makes the destination snapshot None.
C13_AsClaimed ==
  [][/\ (DestinationRootNotFound /\ pc = "snapshotDestination") =>
          (pc' = "diff" /\ IsNone(filesTree_destination'))
     /\ (DestinationNotFoundBelowRoot /\ pc = "snapshotDestination") =>
          pc' \in {"fatal", "crashed"}]_vars

\* -------------------------------------------------------------- the probe
HasNoDevicesLine(output) == \E i \in 1 .. Len(output) : output[i] = "no_devices"
NoSnapshot == IsNone(filesTree_source) /\ IsNone(filesTree_destination)

\* C14 as stated: the readiness check runs before any snapshot is built; it
\* returns false exactly when the output of the probe has a "no
\* devices/emulators found" line; when it returns false the run ends fatally
\* with no snapshot built and nothing issued on a backend.
C14_AsClaimed ==
  [][pc = "testConnection" =>
       /\ NoSnapshot /\ NothingPlanned /\ NothingIssued
       /\ pc' = "fatal" <=> HasNoDevicesLine(probe)
       /\ pc' = "fatal" => (NoSnapshot /\ NothingPlanned /\ NothingIssued)'
       /\ pc' # "fatal" => pc' = "snapshotSource"]_vars

\* ------------------------------------------------------------------ links
\* the tree has an entry of the kind, links not followed
RECURSIVE HasKind(_, _)
HasKind(node, kind) ==
  \/ node.k = kind
  \/ node.k = "D" /\ \E name \in DOMAIN node.c : HasKind(node.c[name], kind)
\* a tree with links in which every entry has a stat
WithLinks(fs) == fs # Absent /\ HasKind(fs, "L") /\ ~HasKind(fs, "X")
\* the snapshot has None wherever the tree has a link
LinksAbsent(fs, tree) ==
  \A names \in Positions : FsAt(fs, names).k = "L" => IsNone(At(tree, names))

\* C15 as stated: with followLinks false, getFilesTree on either backend
\* returns for a tree with symbolic links, the link being the root or an
\* entry of a listed directory, and the snapshot has None at each link.
C15_AsClaimed ==
  [][~args.copyLinks =>
       /\ (pc = "snapshotSource" /\ WithLinks(srcFs)) =>
            (pc' = "snapshotDestination" /\ LinksAbsent(srcFs, filesTree_source'))
       /\ (pc = "snapshotDestination" /\ WithLinks(dstFs)) =>
            (pc' = "diff" /\ LinksAbsent(dstFs, filesTree_destination'))]_vars

\* ------------------------------------------------------------ the copy pass
\* C16 as stated: when a transfer command exits with a code other than 0,
\* for a push as for a pull, the run ends fatally, utime is not issued for
\* the file and no later copy call is issued.
C16_AsClaimed ==
  \A i \in 1 .. Len(copied) :
    (copied[i].op = "pushFileHere" /\ copied[i].exit # 0) =>
      (pc = "fatal" /\ i = Len(copied))

\* ------------------------------------------------ the five trees together
\* how many of the trees have a file at the position
FilesAt(ts, names) == Cardinality({i \in 1 .. Len(ts) : IsTuple(At(ts[i], names))})
\* a file on both sides, the source one not newer
UpToDateAt(names) ==
  /\ IsTuple(SourceAt(names)) /\ IsTuple(DestinationAt(names))
  /\ ~SourceIsNewer(SourceAt(names), DestinationAt(names))

\* C17 as stated: a destination file at a position diffTrees reaches is in
\* exactly one of delete, unaccounted_destination and excluded_destination,
\* or in none when it is the up-to-date counterpart of a source file; a
\* source file there is in exactly one of copy and excluded_source, or in
\* none when it is up to date.
C17_AsClaimed ==
  Diffed =>
    \A names \in Positions :
      ReachedAt(names) =>
        /\ IsTuple(DestinationAt(names)) =>
             LET n == FilesAt(<<tree_delete, tree_unaccounted_destination,
                                tree_excluded_destination>>, names)
             IN n <= 1 /\ (n = 0 <=> (UpToDateAt(names) /\ ~ExcludedAt(names)))
        /\ IsTuple(SourceAt(names)) =>
             LET n == FilesAt(<<tree_copy, tree_excluded_source>>, names)
             IN n <= 1 /\ (n = 0 <=> (UpToDateAt(names) /\ ~ExcludedAt(names)))

\* --------------------------------------------------------- the delete phase
\* path p is strictly below path q
PathBelow(p, q) ==
  /\ Len(NamesOf(p)) > Len(NamesOf(q))
  /\ SubSeq(NamesOf(p), 1, Len(NamesOf(q))) = NamesOf(q)
\* no call comes after the rmdir of a directory above it
PostOrder(calls) ==
  \A i, j \in 1 .. Len(calls) :
    (calls[i].op = "rmdir" /\ PathBelow(calls[j].path, calls[i].path)) => j < i
HasCall(calls, op, names) ==
  \E i \in 1 .. Len(calls) : calls[i].op = op /\ NamesOf(calls[i].path) = names
\* the trees main() may hand to removeTree
RemovableTrees ==
  {tree_delete, tree_excluded_destination, tree_unaccounted_destination,
   tree_unaccounted_destination_non_excluded} \ {None}

\* C18: for every tree handed to removeTree the rmdir of a directory with a
\* self-entry comes after the removal of everything the tree lists below it,
\* a directory without a self-entry gets no rmdir, and every file the tree
\* lists gets its unlink (stated of the trees as the delete phase starts);
\* the removals a run logs are in that order.
C18_DeletePostOrder ==
  /\ PostOrder(log)
  /\ pc = "deleteTree" =>
       \A tree \in RemovableTrees :
         /\ PostOrder(Planned(<<tree>>))
         /\ \A names \in Positions :
              /\ IsDict(At(tree, names)) =>
                   (HasCall(Planned(<<tree>>), "rmdir", names)
                      <=> ~IsNone(SelfEntry(At(tree, names))))
              /\ IsTuple(At(tree, names)) => HasCall(Planned(<<tree>>), "unlink", names)

\* the delete phase of a run is over, a directory was removed after a file
\* in it, and the destination root, a directory without a self-entry in the
\* tree, is still there
C18_Witness ==
  /\ pc = "copy"
  /\ \E i, j \in 1 .. Len(ops) :
       i < j /\ ops[j].op = "rmdir" /\ ops[i].op = "unlink"
       /\ PathBelow(ops[i].path, ops[j].path)
  /\ dstFs.k = "D"

\* ----------------------------------------------------------- the copy pass
\* no call comes before the makedirs of a directory above it
PreOrder(calls) ==
  \A i, j \in 1 .. Len(calls) :
    (calls[j].op = "makedirs" /\ PathBelow(calls[i].path, calls[j].path)) => j < i

\* C19: for the pruned copy tree pushTreeHere plans the makedirs of every
\* directory with a self-entry, and plans and issues it before every makedirs
\* and transfer below it; every transfer below the root goes into a
\* directory that is on the destination when the transfer is issued: one the
\* delete phase left there or one the same pass made before.
C19_CopyPreOrder ==
  /\ PreOrder(copied)
  /\ \A i \in 1 .. Len(copied) :
       copied[i].op = "pushFileHere" => copied[i].parentThere
  /\ (pc = "copy" /\ ~IsNone(tree_copy)) =>
       LET calls == pushTreeHere(path_source, tree_copy, path_destination, FALSE)
       IN /\ PreOrder(calls)
          /\ \A names \in Positions :
               /\ IsDict(At(tree_copy, names)) =>
                    (HasCall(calls, "makedirs", names)
                       <=> ~IsNone(SelfEntry(At(tree_copy, names))))
               /\ IsTuple(At(tree_copy, names)) => HasCall(calls, "pushFileHere", names)

\* a pass has made a directory below the root, one with a self-entry in the
\* copy tree, and then transferred a file into it
C19_Witness ==
  /\ pc = "done"
  /\ \E i, j \in 1 .. Len(copied) :
       /\ i < j
       /\ copied[i].op = "makedirs" /\ NamesOf(copied[i].path) # <<>>
       /\ copied[j].op = "pushFileHere"
       /\ PathBelow(copied[j].path, copied[i].path)
       /\ ~IsNone(SelfEntry(At(tree_copy, NamesOf(copied[i].path))))

\* ---------------------------------------------------------------- pruneTree
\* the ways down a tree of depth MaxPruneDepth, self-entries included
RECURSIVE KeyPathsUpTo(_)
KeyPathsUpTo(n) ==
  IF n = 0 THEN {<<>>}
  ELSE KeyPathsUpTo(n - 1) \cup
       {Append(q, key) : q \in {q \in KeyPathsUpTo(n - 1) : Len(q) = n - 1},
                         key \in Names \cup {"."}}
KeyPaths == KeyPathsUpTo(MaxPruneDepth + 1)
\* a tuple, or a dict that is not empty and has neither None nor an empty
\* dict in it at any depth
RECURSIVE NoneFree(_)
NoneFree(tree) ==
  \/ IsTuple(tree)
  \/ /\ IsDict(tree)
     /\ DOMAIN tree.d # {}
     /\ \A key \in DOMAIN tree.d : NoneFree(tree.d[key])
\* what pruneTree makes of a tree
PrunedFrom(tree, pruned) ==
  /\ IsNone(pruned) \/ NoneFree(pruned)
  /\ IsNone(pruned) <=> \A path \in KeyPaths : ~IsTuple(At(tree, path))
  /\ \A path \in KeyPaths :
       /\ IsTuple(At(tree, path)) => At(pruned, path) = At(tree, path)
       /\ IsTuple(At(pruned, path)) => At(tree, path) = At(pruned, path)
  /\ pruneTree(pruned) = pruned

\* C20: pruneTree(tree) has no None entry and no empty dict at any depth,
\* is None when the tree has no tuple, has every tuple of the tree, file or
\* self-entry, at its path and no other, so it keeps a directory that has
\* nothing but a self-entry, and pruneTree of it gives it back.
C20_PruneInvariant ==
  [][pc = "prune" => PrunedFrom(tree_delete, tree_delete')]_vars

\* a pruned tree with a directory that has nothing but its self-entry, next
\* to a file
C20_Witness ==
  /\ pc = "deleteTree"
  /\ tree_delete = Dict(("a" :> Dict("." :> Tuple(60, 60))) @@ ("b" :> Tuple(60, 60)))

\* ------------------------------------------------------------ the snapshots
\* C21 as stated: diffTrees does not modify the two snapshots passed to it;
\* when it returns, both trees, self-entries and children at every depth,
\* are what they were before the call.
C21_AsClaimed ==
  [][(pc = "diff" /\ pc' = "prune") =>
       /\ filesTree_source' = filesTree_source
       /\ filesTree_destination' = filesTree_destination]_vars

\* ------------------------------------------------- the commands of the walk
\* the adb shell commands that have been started and have not ended
Outstanding(w) == {i \in 1 .. Len(w.open) : ~w.open[i].exited}

\* C22 as stated: during the snapshot of a remote tree at most one adb shell
\* command is outstanding, started and not yet ended, at any time, and when
\* the listing of a directory is started the listing of every directory
\* above it has ended.
C22_AsClaimed ==
  [][/\ Cardinality(Outstanding(walk')) <= 1
     /\ Len(walk'.open) > Len(walk.open) => Outstanding(walk) = {}]_vars

\* ---------------------------------------------------------------- the parser
\* C23 as stated: lsToStat makes of every line exactly one of
\* FileNotFoundError, NotADirectoryError, a (name, stat) record and a fatal
\* end of the run, tested in that order; a line that matches none of the
\* three expressions always ends the run by criticalLogExit.
C23_AsClaimed ==
  pc # "lsToStat" =>
    LET line == parse.line
        result == parse.result
    IN /\ NoSuchFileMatches(line) => result = Raised("FileNotFoundError")
       /\ (~NoSuchFileMatches(line) /\ LsNotADirectoryMatches(line))
            => result = Raised("NotADirectoryError")
       /\ (~NoSuchFileMatches(line) /\ ~LsNotADirectoryMatches(line)
           /\ LsToStatDates(line) # {}) => (result.k = "stat" /\ pc = "parsed")
       /\ (~NoSuchFileMatches(line) /\ ~LsNotADirectoryMatches(line)
           /\ LsToStatDates(line) = {}) => (result = Raised("SystemExit") /\ pc = "fatal")

\* ------------------------------------------------------- links followed
\* what a followed link leaves at its own position: None for a target that
\* is gone or that lies behind something that is no directory, else the
\* tree of the target
FollowedTree(backend, link) ==
  IF lstatRaises(backend, link.to) \in {"FileNotFoundError", "NotADirectoryError"}
  THEN None
  ELSE getFilesTreeRec(backend, link.to, TRUE)
LinksFollowed(backend, fs, tree) ==
  \A names \in Positions :
    FsAt(fs, names).k = "L" => At(tree, names) = FollowedTree(backend, FsAt(fs, names))

\* C24 as stated: with followLinks true, getFilesTree returns for a tree
\* with symbolic links; at the position of a link whose target exists the
\* snapshot has the tree of the target, at the position of a link whose
\* target is not found or is behind a non-directory it has None, and the
\* run goes on to the next step.
C24_AsClaimed ==
  [][args.copyLinks =>
       /\ (pc = "snapshotSource" /\ WithLinks(srcFs)) =>
            /\ pc' = "snapshotDestination"
            /\ LinksFollowed(fs_source, srcFs, filesTree_source')
       /\ (pc = "snapshotDestination" /\ WithLinks(dstFs)) =>
            /\ pc' = "diff"
            /\ LinksFollowed(fs_destination, dstFs, filesTree_destination')]_vars

\* ------------------------------------------------------- the walk ends
\* getFilesTree has returned a tree, or an exception of the backend has
\* left it; RecursionError is the interpreter giving up on a recursion that
\* has not come to an end
WalkEnds ==
  \/ walk.status = "returned"
  \/ walk.status = "raised" /\ walk.error # "RecursionError"

\* C25 as stated: on every finite file system, one with a link to a
\* directory above the link included, with followLinks false and with
\* followLinks true, getFilesTree comes to an end by itself: it returns a
\* tree or raises an error of the backend after finitely many calls.
C25_AsClaimed == <>WalkEnds

\* ------------------------------------------------- the copy pass, counted
\* the calls of one kind a pass made for a position
CallsAt(calls, op, names) ==
  {i \in 1 .. Len(calls) : calls[i].op = op /\ NamesOf(calls[i].path) = names}
\* every file of the tree has one transfer and after it one utime with the
\* times the tree has for it, every directory with a self-entry one makedirs
ExecutedOnce(tree, calls) ==
  \A names \in Positions :
    /\ IsTuple(At(tree, names)) =>
         /\ Cardinality(CallsAt(calls, "pushFileHere", names)) = 1
         /\ Cardinality(CallsAt(calls, "utime", names)) = 1
         /\ \A i \in CallsAt(calls, "pushFileHere", names), j \in CallsAt(calls, "utime", names) :
              i < j /\ calls[j].times = At(tree, names)
    /\ (IsDict(At(tree, names)) /\ ~IsNone(SelfEntry(At(tree, names)))) =>
         Cardinality(CallsAt(calls, "makedirs", names)) = 1

\* C26 as stated: in a run without --dry-run the copy phase of main(), for a
\* push and for a pull, runs to its end on every pruned copy tree, with one
\* transfer and then one utime (the bucketed times of the source snapshot)
\* for each file of the tree and one makedirs for each self-entry.
C26_AsClaimed ==
  [][(pc = "copy" /\ ~args.dryRun /\ ~IsNone(tree_copy)) =>
       (pc' = "done" /\ ExecutedOnce(tree_copy, copied'))]_vars

\* ---------------------------------------------------- removals, then copies
\* the trees of the removals in the order stated: the delete tree, the
\* excluded tree with --delete-excluded, an unaccounted tree with --del
RemovalOrder ==
  <<tree_delete>>
  \o (IF args.deleteExcluded THEN <<tree_excluded_destination>> ELSE <<>>)
  \o (IF args.delete
      THEN <<IF args.deleteExcluded THEN tree_unaccounted_destination
             ELSE tree_unaccounted_destination_non_excluded>>
      ELSE <<>>)
\* the tree has something to remove or to make at the position
ListedAt(tree, names) ==
  \/ IsTuple(At(tree, names))
  \/ IsDict(At(tree, names)) /\ ~IsNone(SelfEntry(At(tree, names)))

\* C27: every removal of a run is issued before its first makedirs or
\* transfer, the removals of the delete tree first, then those of the
\* excluded tree with --delete-excluded, then those of the unaccounted tree
\* with --del; a path that the delete tree and the copy tree both list has
\* been removed on the destination when it is made there; and with both
\* flags the rmdir of an unaccounted directory comes after the removal of
\* everything the excluded tree lists below it.
C27_DeleteBeforeCopy ==
  /\ (pc = "copy" \/ copied # <<>>) =>
       /\ log = Planned(RemovalOrder)
       /\ ~args.dryRun => ops = log
  /\ copied # <<>> => pc \in {"done", "fatal", "crashed"}
  /\ \A i \in 1 .. Len(copied) :
       (copied[i].op \in {"makedirs", "pushFileHere"}
        /\ ListedAt(tree_delete, NamesOf(copied[i].path)))
         => \E j \in 1 .. Len(ops) :
              /\ ops[j].path = copied[i].path
              /\ ops[j].op = IF IsTuple(At(tree_delete, NamesOf(copied[i].path)))
                             THEN "unlink" ELSE "rmdir"
  /\ (args.delete /\ args.deleteExcluded) =>
       \A j \in 1 .. Len(log) : \A names \in Positions :
         (/\ log[j].op = "rmdir"
          /\ ListedAt(tree_unaccounted_destination, NamesOf(log[j].path))
          /\ ~ListedAt(tree_excluded_destination, NamesOf(log[j].path))
          /\ ~ListedAt(tree_delete, NamesOf(log[j].path))
          /\ ListedAt(tree_excluded_destination, names)
          /\ Len(names) > Len(NamesOf(log[j].path))
          /\ SubSeq(names, 1, Len(NamesOf(log[j].path))) = NamesOf(log[j].path))
           => \E i \in 1 .. j - 1 : NamesOf(log[i].path) = names

\* a run with --delete-excluded has removed a stale file, then an excluded
\* file, and then copied a file to the path of the stale one
C27_Witness ==
  /\ pc = "done"
  /\ args.deleteExcluded /\ ~args.dryRun
  /\ \E i, j \in 1 .. Len(ops) :
       /\ i < j
       /\ ops[i].op = "unlink"
       /\ ListedAt(tree_delete, NamesOf(ops[i].path))
       /\ ListedAt(tree_excluded_destination, NamesOf(ops[j].path))
       /\ \E k \in 1 .. Len(copied) :
            copied[k].op = "pushFileHere" /\ copied[k].path = ops[i].path

\* ------------------------------------------------- planning before acting
\* where main() is before its first removeTree: the probe, the two
\* snapshots, diffTrees and the pruning of its trees
Planning == {"testConnection", "snapshotSource", "snapshotDestination", "diff", "prune"}

\* C28: no step of main() up to and including diffTrees and the pruning
\* changes a backend or issues a removal, a makedirs, a transfer or a utime,
\* and none has been issued in the run so far; so a run that ends during
\* the probe, a snapshot or the diff, a refused conflict anywhere in the
\* tree included, leaves both backends as the run found them.
C28_PlanBeforeMutation ==
  [][(pc \in Planning) =>
       /\ Len(ops) = 0 /\ Len(ops') = 0
       /\ Len(copied) = 0 /\ Len(copied') = 0
       /\ Len(log) = 0 /\ Len(log') = 0
       /\ srcFs' = srcFs
       /\ dstFs' = dstFs]_vars

\* a run without --force has ended in diffTrees on a conflict below the
\* root, the destination holding what it held
C28_Witness ==
  /\ pc = "fatal"
  /\ IsDict(filesTree_source) /\ IsDict(filesTree_destination)
  /\ \E names \in Positions :
       /\ names # <<>>
       /\ IsDict(At(filesTree_source, names)) /\ IsTuple(At(filesTree_destination, names))
       /\ FsAt(dstFs, names).k = "F"
  /\ ops = <<>> /\ copied = <<>>

\* ---------------------------------------------------- below an exclusion
\* the position and every position below it
AtOrBelow(names) == {names} \cup Below(names)

\* C29: where diffTrees is called for a position whose destination path
\* matches an exclusion pattern, it returns the source subtree whole as
\* excluded_source and, for a directory at the destination, the destination
\* subtree whole as excluded_destination; copy, delete and
\* unaccounted_destination list nothing at the position or below it; and
\* no conflict is reported there, with folderFileOverwriteError too: no
\* warning names a path there, and the call ends the run only for a
\* conflict at a position that is not excluded.
C29_ExclusionShadows ==
  /\ Diffed =>
       \A names \in Positions :
         (ReachedAt(names) /\ ExcludedAt(names)) =>
           /\ At(tree_excluded_source, names) = SourceAt(names)
           /\ IsDict(DestinationAt(names)) =>
                At(tree_excluded_destination, names) = DestinationAt(names)
           /\ \A q \in AtOrBelow(names) :
                /\ ~ListedAt(tree_copy, q)
                /\ ~ListedAt(tree_delete, q)
                /\ ~ListedAt(tree_unaccounted_destination, q)
                /\ PathOf(q) \notin warned
  /\ (pc = "fatal" /\ ~IsNone(filesTree_source)) => ConflictReached

\* diffTrees, called with folderFileOverwriteError, has returned its trees
\* for a source file over a destination directory with a file in it, at a
\* path below the root that matches a pattern
C29_Witness ==
  /\ Diffed
  /\ overwriteIsError(args)
  /\ \E names \in Positions \ {<<>>} :
       /\ ReachedAt(names) /\ ExcludedAt(names)
       /\ IsTuple(SourceAt(names)) /\ IsDict(DestinationAt(names))
       /\ \E q \in Below(names) : IsTuple(DestinationAt(q))
       /\ At(tree_excluded_destination, names) = DestinationAt(names)

\* ------------------------------------------- a link at the source root
\* Runs whose source root is a symbolic link, to a file, to a directory or
\* to nothing, against every destination tree, with and without
\* --copy-links, --del, --delete-excluded and --dry-run.
LinkRoots ==
  {Symlink(Sec(100), Sec(100), to) :
     to \in {Absent, File(Sec(160), Sec(160)),
             Directory(Sec(75), Sec(61), "a" :> File(Sec(160), Sec(160)))}}

InitLinkRoot ==
  /\ args \in [dryRun : BOOLEAN, force : {FALSE}, delete : BOOLEAN,
               deleteExcluded : BOOLEAN, pull : BOOLEAN, copyLinks : BOOLEAN,
               exclude : ExcludeLists(DiffMaxPattern)]
  /\ probe = <<>>
  /\ srcFs \in LinkRoots
  /\ dstFs \in FsTrees(CopyMaxNodes, MaxStat) \cup {Absent}
  /\ pc = "testConnection"
  /\ InitRest

SpecLinkRoot == InitLinkRoot /\ [][NextRun]_vars

\* getFilesTree returns None for the source root
SourceRootAbsent ==
  /\ getFilesTree(fs_source, srcFs, args.copyLinks).error = ""
  /\ IsNone(SourceSnapshot)
\* the destination node at the position is in exactly one of the
\* unaccounted and the excluded tree: a file as it is, a directory by its
\* self-entry or, where it is excluded, whole
ClassifiedAt(names) ==
  IF IsTuple(DestinationAt(names))
  THEN (At(tree_unaccounted_destination, names) = DestinationAt(names))
         # (At(tree_excluded_destination, names) = DestinationAt(names))
  ELSE (SelfEntry(At(tree_unaccounted_destination, names)) = SelfEntry(DestinationAt(names)))
         # (At(tree_excluded_destination, names) = DestinationAt(names))
\* the pruned unaccounted tree lists the position and the pruned excluded
\* tree lists nothing at it or below it
RemovableAt(names) ==
  /\ ListedAt(tree_unaccounted_destination, names)
  /\ \A q \in AtOrBelow(names) : ~ListedAt(tree_excluded_destination, q)

\* C30: when getFilesTree returns None for the source root, for a link
\* that is not followed or a followed link to nothing, the run does not end
\* fatally; the pruned copy and delete trees are None; every node of the
\* destination is in exactly one of unaccounted_destination and
\* excluded_destination; and a run with --del and without --dry-run ends
\* with every destination node gone that is not excluded and has nothing
\* excluded below it, the destination root included.
C30_AbsentSourceRoot ==
  SourceRootAbsent =>
    /\ pc \notin {"fatal", "crashed"}
    /\ Pruned => IsNone(tree_copy) /\ IsNone(tree_delete)
    /\ Diffed => \A names \in Positions :
                   ~IsNone(DestinationAt(names)) => ClassifiedAt(names)
    /\ (pc = "done" /\ args.delete /\ ~args.dryRun) =>
         \A names \in Positions : RemovableAt(names) => FsAt(dstFs, names) = Absent

\* a run with --del on a source root that is a link to nothing has ended:
\* it has removed a file of the destination and left an excluded one
C30_Witness ==
  /\ SourceRootAbsent
  /\ srcFs.to = Absent /\ args.copyLinks
  /\ pc = "done"
  /\ args.delete /\ ~args.deleteExcluded /\ ~args.dryRun
  /\ \E i \in 1 .. Len(ops) : ops[i].op = "unlink"
  /\ \E names \in Positions :
       IsTuple(At(tree_excluded_destination, names)) /\ FsAt(dstFs, names).k = "F"
====
